---- MODULE Spec2Model ----
(***************************************************************************)
(* A model of the Rubik's cube simulator of src/src/rubiks.rs: the Turn    *)
(* algebra (two representations of a quarter turn and their conversions),  *)
(* the Move type (a list of turns) and RubiksCubeState (the facelet array  *)
(* and the operations that permute it).                                    *)
(*                                                                         *)
(* Facelet arrays are functions over 0..6*n*n-1 so that every index of the *)
(* model is the index the source computes.  Integers of TLC are 32 bits    *)
(* wide: usize is modelled with UsizeBits bits, far above every size the   *)
(* model uses, so that a wrapped value is still recognisably out of range. *)
(***************************************************************************)
EXTENDS Integers, Sequences, FiniteSets, TLC

VARIABLES
    overflow_checks, \* rustc -C overflow-checks: TRUE in a debug build, FALSE in release
    pc,              \* position of the driver that calls into the library
    n,               \* RubiksCubeState.n
    data,            \* RubiksCubeState.data of the cube under test
    data2,           \* a second cube (a clone of the first that took another path)
    mv,              \* the Move / the turns handed to the last operation
    t1,              \* a Turn value
    t2,              \* a second Turn value
    s,               \* the String handed to from_state_string
    res              \* what the last operation returned

vars == <<overflow_checks, pc, n, data, data2, mv, t1, t2, s, res>>

----------------------------------------------------------------------------
(* Bounds of the model.                                                    *)

\* cube sizes 2..MaxN in the cube specifications
MaxN == 4
\* longest Move handed to do_move
MaxMoveLen == 2
\* cube sizes 2..MaxTurnN in the Turn algebra specification
MaxTurnN == 5
\* cube sizes 2..MaxScrambleN are scrambled
MaxScrambleN == 2
\* most turns of a scramble
MaxScramble == 2
\* longest String handed to from_state_string
MaxStrLen == 54
\* test_is_solved checks std_solved_nxnxn(n) for n in 2..10 (exclusive)
SolvedTestMaxN == 9

----------------------------------------------------------------------------
(* Machine arithmetic.                                                     *)

UsizeBits == 16
UsizeMod == 2 ^ UsizeBits

\* Rust's integer division truncates toward zero (TLA+'s \div floors).
IDiv(a, b) == IF a >= 0 THEN a \div b ELSE -((-a) \div b)

\* usize subtraction as a release build computes it (wrapping).
USubWrap(a, b) == (a - b) % UsizeMod

\* usize subtraction overflows: a debug build panics here.
USubOverflows(a, b) == a < b

Abs(i) == IF i < 0 THEN -i ELSE i

----------------------------------------------------------------------------
(* enum Face, enum Axis, enum Color                                        *)

Face == <<"Up", "Left", "Front", "Right", "Back", "Down">>
Faces == {Face[i] : i \in 1..6}

\* `face as usize`
FaceId(f) == CHOOSE i \in 0..5 : Face[i + 1] = f

Axes == {"X", "Y", "Z"}

Color == <<"White", "Green", "Red", "Blue", "Orange", "Yellow">>
Colors == {Color[i] : i \in 1..6}

----------------------------------------------------------------------------
(* enum Turn                                                               *)

AxisBased(axis, pos_rot, index, cube_size) ==
    [kind |-> "AxisBased", axis |-> axis, pos_rot |-> pos_rot,
     index |-> index, cube_size |-> cube_size]

FaceBased(face, inv, num_in, cube_size) ==
    [kind |-> "FaceBased", face |-> face, inv |-> inv,
     num_in |-> num_in, cube_size |-> cube_size]

\* The face an axis-based turn maps to: the match arms of into_face_based.
PosFaceOf(axis) ==
    CASE axis = "X" -> "Left" [] axis = "Y" -> "Front" [] axis = "Z" -> "Up"

NegFaceOf(axis) ==
    CASE axis = "X" -> "Right" [] axis = "Y" -> "Back" [] axis = "Z" -> "Down"

\* into_face_based with a swapped rotation sense on the negative side
into_face_based_keep_sense(t) ==
    IF t.kind = "FaceBased" THEN t
    ELSE IF t.index > 0
         THEN FaceBased(PosFaceOf(t.axis), t.pos_rot,
                        USubWrap(t.cube_size \div 2, t.index), t.cube_size)
         ELSE FaceBased(NegFaceOf(t.axis), t.pos_rot,
                        USubWrap(t.cube_size \div 2, -t.index), t.cube_size)

\* Turn::into_face_based, the value a build without overflow checks returns.
into_face_based(t) ==
    IF t.kind = "FaceBased" THEN t
    ELSE IF t.index > 0
         THEN FaceBased(PosFaceOf(t.axis), t.pos_rot,
                        USubWrap(t.cube_size \div 2, t.index), t.cube_size)
         ELSE FaceBased(NegFaceOf(t.axis), ~t.pos_rot,
                        USubWrap(t.cube_size \div 2, -t.index), t.cube_size)

\* Turn::into_face_based hits `attempt to subtract with overflow`.
into_face_based_overflows(t) ==
    /\ t.kind = "AxisBased"
    /\ USubOverflows(t.cube_size \div 2, Abs(t.index))

\* into_axis_based with the negative side mapped to a positive index
into_axis_based_no_sign(t) ==
    IF t.kind = "AxisBased" THEN t
    ELSE CASE t.face = "Up" ->
                AxisBased("Z", t.inv, IDiv(t.cube_size, 2) - t.num_in, t.cube_size)
           [] t.face = "Left" ->
                AxisBased("X", t.inv, IDiv(t.cube_size, 2) - t.num_in, t.cube_size)
           [] t.face = "Front" ->
                AxisBased("Y", t.inv, IDiv(t.cube_size, 2) - t.num_in, t.cube_size)
           [] t.face = "Right" ->
                AxisBased("X", ~t.inv, IDiv(t.cube_size, 2) - t.num_in, t.cube_size)
           [] t.face = "Back" ->
                AxisBased("Y", ~t.inv, IDiv(t.cube_size, 2) - t.num_in, t.cube_size)
           [] t.face = "Down" ->
                AxisBased("Z", ~t.inv, IDiv(t.cube_size, 2) - t.num_in, t.cube_size)

\* Turn::into_axis_based
into_axis_based(t) ==
    IF t.kind = "AxisBased" THEN t
    ELSE CASE t.face = "Up" ->
                AxisBased("Z", t.inv, IDiv(t.cube_size, 2) - t.num_in, t.cube_size)
           [] t.face = "Left" ->
                AxisBased("X", t.inv, IDiv(t.cube_size, 2) - t.num_in, t.cube_size)
           [] t.face = "Front" ->
                AxisBased("Y", t.inv, IDiv(t.cube_size, 2) - t.num_in, t.cube_size)
           [] t.face = "Right" ->
                AxisBased("X", ~t.inv, IDiv(-t.cube_size, 2) + t.num_in, t.cube_size)
           [] t.face = "Back" ->
                AxisBased("Y", ~t.inv, IDiv(-t.cube_size, 2) + t.num_in, t.cube_size)
           [] t.face = "Down" ->
                AxisBased("Z", ~t.inv, IDiv(-t.cube_size, 2) + t.num_in, t.cube_size)

\* impl PartialEq for Turn: `a == b`, normalising b to a's representation.
Turn_eq(a, b) ==
    IF a.kind = "AxisBased"
    THEN LET o == into_axis_based(b)
         IN  /\ a.axis = o.axis
             /\ a.pos_rot = o.pos_rot
             /\ a.index = o.index
             /\ a.cube_size = o.cube_size
    ELSE LET o == into_face_based(b)
         IN  /\ a.face = o.face
             /\ a.inv = o.inv
             /\ a.num_in = o.num_in
             /\ a.cube_size = o.cube_size

\* Turn::invert
Turn_invert(t) ==
    IF t.kind = "AxisBased"
    THEN [t EXCEPT !.pos_rot = ~t.pos_rot]
    ELSE [t EXCEPT !.inv = ~t.inv]

\* commutes_with that compares the rotation sense, not the axis
commutes_with_by_sense(a, b) == into_axis_based(a).pos_rot = into_axis_based(b).pos_rot

\* Turn::commutes_with
commutes_with(a, b) == into_axis_based(a).axis = into_axis_based(b).axis

----------------------------------------------------------------------------
(* struct Move: a sequence of Turn                                         *)

RECURSIVE Reverse(_)
Reverse(q) == IF q = <<>> THEN <<>> ELSE Append(Reverse(Tail(q)), Head(q))

\* Move::invert without the reversal of the order
Move_invert_in_order(m) == [i \in 1..Len(m) |-> Turn_invert(m[i])]

\* Move::invert: `.rev().map(|turn| turn.invert())`
Move_invert(m) == [i \in 1..Len(m) |-> Turn_invert(Reverse(m)[i])]

----------------------------------------------------------------------------
(* struct RubiksCubeState {n, data}                                        *)

\* RubiksCubeState::std_solved_nxnxn: n*n facelets of each color, in order
std_solved_nxnxn(nn) == [p \in 0..(6 * nn * nn - 1) |-> Color[(p \div (nn * nn)) + 1]]

\* RubiksCubeState::rotate_face: the block of `face` is rebuilt in `temp` from
\* the old block, then copied back.
rotate_face(d, nn, face, inv) ==
    LET offset == nn * nn * FaceId(face)
    IN  [p \in DOMAIN d |->
            IF p >= offset /\ p < offset + nn * nn
            THEN LET i == (p - offset) \div nn
                     j == (p - offset) % nn
                 IN  IF inv
                     THEN d[offset + j * nn + (nn - i - 1)]
                     ELSE d[offset + (nn - j - 1) * nn + i]
            ELSE d[p]]

\* the four positions cycled the other way round
Cycle4_backwards(d, a, b, c, e) ==
    LET d1 == [d  EXCEPT ![a] = d[e]]
        d2 == [d1 EXCEPT ![e] = d1[c]]
        d3 == [d2 EXCEPT ![c] = d2[b]]
    IN  [d3 EXCEPT ![b] = d[a]]

\* The five assignments `temp = d[a]; d[a] = d[b]; d[b] = d[c]; d[c] = d[e];
\* d[e] = temp`, one after the other on the same buffer.
Cycle4(d, a, b, c, e) ==
    LET d1 == [d  EXCEPT ![a] = d[b]]
        d2 == [d1 EXCEPT ![b] = d1[c]]
        d3 == [d2 EXCEPT ![c] = d2[e]]
    IN  [d3 EXCEPT ![e] = d[a]]

\* The four indices the i-th iteration of turn's loop cycles, per match arm.
TurnCycle(nn, face, inv, num_in, i) ==
    LET fo == nn * nn
    IN  CASE face = "Up" ->
               LET ro == nn * num_in
               IN  IF inv
                   THEN <<fo + ro + i, fo * 4 + ro + i, fo * 3 + ro + i, fo * 2 + ro + i>>
                   ELSE <<fo + ro + i, fo * 2 + ro + i, fo * 3 + ro + i, fo * 4 + ro + i>>
          [] face = "Left" ->
               LET ro == num_in
               IN  IF inv
                   THEN <<i * nn + ro, fo * 2 + i * nn + ro, fo * 5 + i * nn + ro,
                          fo * 4 + (nn - i - 1) * nn + (nn - ro - 1)>>
                   ELSE <<i * nn + ro, fo * 4 + (nn - i - 1) * nn + (nn - ro - 1),
                          fo * 5 + i * nn + ro, fo * 2 + i * nn + ro>>
          [] face = "Front" ->
               IF inv
               THEN <<(nn - num_in - 1) * nn + i, fo * 3 + i * nn + num_in,
                      fo * 5 + num_in * nn + (nn - i - 1),
                      fo * 1 + (nn - i - 1) * nn + (nn - num_in - 1)>>
               ELSE <<(nn - num_in - 1) * nn + i,
                      fo * 1 + (nn - i - 1) * nn + (nn - num_in - 1),
                      fo * 5 + num_in * nn + (nn - i - 1), fo * 3 + i * nn + num_in>>
          [] face = "Right" ->
               LET ro == nn - num_in - 1
               IN  IF inv
                   THEN <<i * nn + ro, fo * 4 + (nn - i - 1) * nn + (nn - ro - 1),
                          fo * 5 + i * nn + ro, fo * 2 + i * nn + ro>>
                   ELSE <<i * nn + ro, fo * 2 + i * nn + ro, fo * 5 + i * nn + ro,
                          fo * 4 + (nn - i - 1) * nn + (nn - ro - 1)>>
          [] face = "Back" ->
               IF inv
               THEN <<nn * num_in + i, fo * 1 + (nn - i - 1) * nn + num_in,
                      fo * 5 + (nn - num_in - 1) * nn + (nn - i - 1),
                      fo * 3 + i * nn + (nn - num_in - 1)>>
               ELSE <<nn * num_in + i, fo * 3 + i * nn + (nn - num_in - 1),
                      fo * 5 + (nn - num_in - 1) * nn + (nn - i - 1),
                      fo * 1 + (nn - i - 1) * nn + num_in>>
          [] face = "Down" ->
               LET ro == nn * (nn - num_in - 1)
               IN  IF inv
                   THEN <<fo + ro + i, fo * 2 + ro + i, fo * 3 + ro + i, fo * 4 + ro + i>>
                   ELSE <<fo + ro + i, fo * 4 + ro + i, fo * 3 + ro + i, fo * 2 + ro + i>>

\* `for i in 0..self.n` of turn, from iteration i on
RECURSIVE TurnLoop(_, _, _, _, _, _)
TurnLoop(d, nn, face, inv, num_in, i) ==
    IF i >= nn THEN d
    ELSE LET c == TurnCycle(nn, face, inv, num_in, i)
         IN  TurnLoop(Cycle4(d, c[1], c[2], c[3], c[4]), nn, face, inv, num_in, i + 1)

\* turn's second assertion with the bound one too small
turn_asserts_strict(nn, t) ==
    LET f == into_face_based(t)
    IN  f.cube_size = nn /\ f.num_in < (nn - 1) \div 2

\* turn's assertions without the one on the cube size
turn_asserts_layers_only(nn, t) ==
    LET f == into_face_based(t)
    IN  f.num_in < nn \div 2

\* turn's two assertions on the turn it is given
turn_asserts(nn, t) ==
    LET f == into_face_based(t)
    IN  f.cube_size = nn /\ f.num_in < nn \div 2

\* turn panics: in into_face_based (overflow checks on) or on an assertion
turn_panics(nn, t, oc) ==
    \/ oc /\ into_face_based_overflows(t)
    \/ ~turn_asserts(nn, t)

\* turn that rotates the block of the face whatever the layer
turn_rotates_block_always(d, nn, t) ==
    LET f  == into_face_based(t)
        d0 == rotate_face(d, nn, f.face, f.inv)
    IN  TurnLoop(d0, nn, f.face, f.inv, f.num_in, 0)

\* RubiksCubeState::turn on a turn that passes the assertions
turn(d, nn, t) ==
    LET f  == into_face_based(t)
        d0 == IF f.num_in = 0 THEN rotate_face(d, nn, f.face, f.inv) ELSE d
    IN  TurnLoop(d0, nn, f.face, f.inv, f.num_in, 0)

\* RubiksCubeState::do_move: `for turn in turns { self.turn(*turn) }`
RECURSIVE do_move(_, _, _)
do_move(d, nn, m) ==
    IF m = <<>> THEN d ELSE do_move(turn(d, nn, Head(m)), nn, Tail(m))

\* is_solved that looks at five faces only
is_solved_five_faces(d, nn) ==
    \A face \in 0..4 : \A i \in 1..(nn * nn - 1) :
        d[nn * nn * face + i] = d[nn * nn * face]

\* is_solved that skips the last facelet of every face
is_solved_short(d, nn) ==
    \A face \in 0..5 : \A i \in 1..(nn * nn - 2) :
        d[nn * nn * face + i] = d[nn * nn * face]

\* RubiksCubeState::is_solved
is_solved(d, nn) ==
    \A face \in 0..5 : \A i \in 1..(nn * nn - 1) :
        d[nn * nn * face + i] = d[nn * nn * face]

\* RubiksCubeState::all_turns
all_turns(nn) ==
    {FaceBased(f, inv, i, nn) : f \in Faces, inv \in BOOLEAN, i \in 0..(nn \div 2 - 1)}

\* `for i in 0..nn` of rotate_cube, from iteration i on; k = <<a, b, c, e>> are
\* the face numbers of the cycle data[a*nn+i] <- data[b*nn+i] <- ...
RECURSIVE RotateLoop(_, _, _, _)
RotateLoop(d, sq, k, i) ==
    IF i >= sq THEN d
    ELSE RotateLoop(Cycle4(d, k[1] * sq + i, k[2] * sq + i, k[3] * sq + i, k[4] * sq + i),
                    sq, k, i + 1)

\* rotate_cube that leaves the two faces on the axis as they are
rotate_cube_no_spin(d, nn, axis) ==
    LET sq == nn * nn
    IN  CASE axis = "X" -> RotateLoop(d, sq, <<0, 2, 5, 4>>, 0)
          [] axis = "Y" -> RotateLoop(d, sq, <<0, 3, 5, 1>>, 0)
          [] axis = "Z" -> RotateLoop(d, sq, <<1, 4, 3, 2>>, 0)

\* RubiksCubeState::rotate_cube
rotate_cube(d, nn, axis) ==
    LET sq == nn * nn
    IN  CASE axis = "X" ->
               LET a1 == rotate_face(d, nn, "Back", FALSE)
                   a2 == rotate_face(a1, nn, "Back", FALSE)
                   a3 == rotate_face(a2, nn, "Right", FALSE)
                   a4 == rotate_face(a3, nn, "Left", TRUE)
                   a5 == RotateLoop(a4, sq, <<0, 2, 5, 4>>, 0)
                   a6 == rotate_face(a5, nn, "Back", FALSE)
               IN  rotate_face(a6, nn, "Back", FALSE)
          [] axis = "Y" ->
               LET a1 == rotate_face(d, nn, "Back", FALSE)
                   a2 == rotate_face(a1, nn, "Front", TRUE)
                   a3 == RotateLoop(a2, sq, <<0, 3, 5, 1>>, 0)
                   a4 == rotate_face(a3, nn, "Up", TRUE)
                   a5 == rotate_face(a4, nn, "Left", TRUE)
                   a6 == rotate_face(a5, nn, "Down", TRUE)
               IN  rotate_face(a6, nn, "Right", TRUE)
          [] axis = "Z" ->
               LET a1 == rotate_face(d, nn, "Down", FALSE)
                   a2 == rotate_face(a1, nn, "Up", TRUE)
               IN  RotateLoop(a2, sq, <<1, 4, 3, 2>>, 0)

----------------------------------------------------------------------------
(* RubiksCubeState::from_state_string.  A String is a sequence of one-     *)
(* character strings; every character of the model is ASCII, so s.len()    *)
(* (bytes) is the number of characters.                                    *)

\* f64::sqrt(x).floor() for a whole number x (exact for every x below 2^52)
FloorSqrt(x) == CHOOSE r \in 0..x : r * r <= x /\ (r + 1) * (r + 1) > x

\* char::to_ascii_lowercase on the characters of the model
to_ascii_lowercase(c) ==
    CASE c = "W" -> "w" [] c = "G" -> "g" [] c = "R" -> "r"
      [] c = "B" -> "b" [] c = "O" -> "o" [] c = "Y" -> "y"
      [] c = "X" -> "x" [] OTHER -> c

\* the characters the match of from_state_string names
ColorLetters == {"w", "g", "r", "b", "o", "y"}

\* the match arms of from_state_string for a recognised letter
ColorOfLetter(l) ==
    CASE l = "w" -> "White" [] l = "g" -> "Green" [] l = "r" -> "Red"
      [] l = "b" -> "Blue" [] l = "o" -> "Orange" [] l = "y" -> "Yellow"

\* RubiksCubeState::from_state_string: Err(InvalidData) on a bad length, the
\* panic of unimplemented!() on a character the match does not name, else Ok.
from_state_string(str) ==
    LET len == Len(str)
        nn  == FloorSqrt(len \div 6)
    IN  IF len % 6 # 0 \/ nn * nn # len \div 6
        THEN [outcome |-> "Err", kind |-> "InvalidData"]
        ELSE IF \E i \in 1..len : to_ascii_lowercase(str[i]) \notin ColorLetters
        THEN [outcome |-> "panic"]
        ELSE [outcome |-> "Ok", n |-> nn,
              data |-> [p \in 0..(len - 1) |->
                           ColorOfLetter(to_ascii_lowercase(str[p + 1]))]]

\* Color::as_char
as_char(c) ==
    CASE c = "White" -> "W" [] c = "Green" -> "G" [] c = "Red" -> "R"
      [] c = "Blue" -> "B" [] c = "Orange" -> "O" [] c = "Yellow" -> "Y"

----------------------------------------------------------------------------
(* SpecCube: a driver in the manner of the tests of rubiks.rs.  It builds  *)
(* a cube of size n (data), keeps a clone (data2), and then either applies *)
(* a Move and its inverse, applies two turns in both orders to the cube    *)
(* and to the clone, or rotates the cube and turns every slice of the      *)
(* clone.                                                                  *)

\* Facelet strings that together tell every position of a cube of size up
\* to 6 from every other: position p carries the digits of p in base 6.
PatternString(nn, k) ==
    [i \in 1..(6 * nn * nn) |->
        LET p == i - 1
            r == p % (nn * nn)
        IN  as_char(Color[(IF k = 1 THEN r \div 6 ELSE r % 6) + 1])]

\* The states the driver starts from: the solved cube and parsed strings.
StartStates(nn) ==
    {std_solved_nxnxn(nn)} \cup {from_state_string(PatternString(nn, k)).data : k \in 1..2}

\* Every Move of at most k turns for a cube of size nn.
Moves(nn, k) == UNION {[1..l -> all_turns(nn)] : l \in 0..k}

\* Every valid turn of size nn in both representations.
BothForms(nn) == all_turns(nn) \cup {into_axis_based(t) : t \in all_turns(nn)}

\* test_rotate_cube's Move: every slice of the axis turned in the positive
\* direction, index -n/2..=n/2 without 0.
SliceMove(nn, axis) ==
    LET h   == IDiv(nn, 2)
        idx == [i \in 1..(2 * h) |-> IF i <= h THEN i - h - 1 ELSE i - h]
    IN  [i \in 1..(2 * h) |-> AxisBased(axis, TRUE, idx[i], nn)]

InitCube ==
    /\ overflow_checks = TRUE
    /\ pc = "start"
    /\ n \in 2..MaxN
    /\ data \in StartStates(n)
    /\ data2 = data
    /\ mv = <<>>
    /\ t1 = FaceBased("Up", FALSE, 0, 3)
    /\ t2 = t1
    /\ s = <<>>
    /\ res = FALSE

\* state.do_move(&m)
DoMove ==
    /\ pc = "start"
    /\ pc' = "moved"
    /\ \E m \in Moves(n, MaxMoveLen) :
          /\ mv' = m
          /\ data' = do_move(data, n, m)
    /\ UNCHANGED <<overflow_checks, n, data2, t1, t2, s, res>>

\* state.do_move(&m.invert()), m being the Move of DoMove
UndoMove ==
    /\ pc = "moved"
    /\ pc' = "undone"
    /\ data' = do_move(data, n, Move_invert(mv))
    /\ UNCHANGED <<overflow_checks, n, data2, mv, t1, t2, s, res>>

\* state.do_move(&m.invert()) first
DoMoveInverse ==
    /\ pc = "start"
    /\ pc' = "moved_inverse"
    /\ \E m \in Moves(n, MaxMoveLen) :
          /\ mv' = m
          /\ data' = do_move(data, n, Move_invert(m))
    /\ UNCHANGED <<overflow_checks, n, data2, t1, t2, s, res>>

\* state.do_move(&m) after its inverse
RedoMove ==
    /\ pc = "moved_inverse"
    /\ pc' = "redone"
    /\ data' = do_move(data, n, mv)
    /\ UNCHANGED <<overflow_checks, n, data2, mv, t1, t2, s, res>>

\* state.turn(a); state.turn(b) on the cube, state2.turn(b); state2.turn(a)
\* on the clone, and a.commutes_with(&b)
TurnBothOrders ==
    /\ pc = "start"
    /\ pc' = "two_orders"
    /\ \E a \in BothForms(n), b \in BothForms(n) :
          /\ t1' = a
          /\ t2' = b
          /\ res' = commutes_with(a, b)
          /\ data' = turn(turn(data, n, a), n, b)
          /\ data2' = turn(turn(data2, n, b), n, a)
    /\ UNCHANGED <<overflow_checks, n, mv, s>>

\* state.rotate_cube(axis) on the cube, every slice turned on the clone
RotateAndSlice ==
    /\ pc = "start"
    /\ pc' = "rotated"
    /\ \E axis \in Axes :
          /\ mv' = SliceMove(n, axis)
          /\ data' = rotate_cube(data, n, axis)
          /\ data2' = do_move(data2, n, SliceMove(n, axis))
    /\ UNCHANGED <<overflow_checks, n, t1, t2, s, res>>

NextCube ==
    \/ DoMove
    \/ UndoMove
    \/ DoMoveInverse
    \/ RedoMove
    \/ TurnBothOrders
    \/ RotateAndSlice

SpecCube == InitCube /\ [][NextCube]_vars

----------------------------------------------------------------------------
(* SpecSolved: is_solved.  The driver takes the solved cube of a size in   *)
(* 2..SolvedTestMaxN, scrambles the cubes of a size up to MaxScrambleN or  *)
(* rotates those of a size up to MaxN, and may then replace one facelet of *)
(* these, the way test_is_solved does: through a facelet string with one   *)
(* letter changed.  After every step it calls is_solved; res.solved is the *)
(* answer and res.turns the number of turns made so far.                   *)

\* The facelet string of a state: Color::as_char of every facelet in order.
StateString(d) == [i \in 1..Cardinality(DOMAIN d) |-> as_char(d[i - 1])]

InitSolved ==
    /\ overflow_checks = TRUE
    /\ pc = "fresh"
    /\ n \in 2..SolvedTestMaxN
    /\ data = std_solved_nxnxn(n)
    /\ data2 = data
    /\ mv = <<>>
    /\ t1 = FaceBased("Up", FALSE, 0, 3)
    /\ t2 = t1
    /\ s = <<>>
    /\ res = [solved |-> is_solved(data, n), turns |-> 0]

\* state.turn(t); state.is_solved()
ScrambleTurn ==
    /\ pc \in {"fresh", "scrambled"}
    /\ n <= MaxScrambleN
    /\ res.turns < MaxScramble
    /\ pc' = "scrambled"
    /\ \E t \in all_turns(n) :
          /\ data' = turn(data, n, t)
          /\ res' = [solved |-> is_solved(turn(data, n, t), n), turns |-> res.turns + 1]
    /\ UNCHANGED <<overflow_checks, n, data2, mv, t1, t2, s>>

\* state.rotate_cube(axis); state.is_solved()
RotateSolved ==
    /\ pc = "fresh"
    /\ n <= MaxN
    /\ pc' = "rotated"
    /\ \E axis \in Axes :
          /\ data' = rotate_cube(data, n, axis)
          /\ res' = [solved |-> is_solved(rotate_cube(data, n, axis), n), turns |-> 0]
    /\ UNCHANGED <<overflow_checks, n, data2, mv, t1, t2, s>>

\* The state's facelet string with the letter of facelet i replaced by the
\* letter of another color c, parsed again; then is_solved().  data2 keeps
\* the state before.
Corrupt ==
    /\ pc \in {"fresh", "scrambled", "rotated"}
    /\ n <= MaxN
    /\ pc' = "corrupted"
    /\ LET base == StateString(data)
       IN  \E i \in DOMAIN data : \E c \in Colors \ {data[i]} :
              LET r == from_state_string([base EXCEPT ![i + 1] = as_char(c)])
              IN  /\ s' = [base EXCEPT ![i + 1] = as_char(c)]
                  /\ data' = r.data
                  /\ res' = [solved |-> is_solved(r.data, r.n), turns |-> res.turns]
    /\ data2' = data
    /\ UNCHANGED <<overflow_checks, n, mv, t1, t2>>

NextSolved ==
    \/ ScrambleTurn
    \/ RotateSolved
    \/ Corrupt

SpecSolved == InitSolved /\ [][NextSolved]_vars

----------------------------------------------------------------------------
(* SpecParse: from_state_string on the Strings of InputStrings.  Before    *)
(* the call no state exists (n = 0, data empty).                           *)

Letters == <<"W", "G", "R", "B", "O", "Y", "w", "g", "r", "b", "o", "y">>

\* characters that name no color
BadChars == {"X", "x", "1"}

\* A String of length len over Letters: letter number (a*i + b) mod 12.
LetterString(len, a, b) == [i \in 1..len |-> Letters[((a * i + b) % 12) + 1]]

\* The Strings the driver parses: of every length up to MaxStrLen, in upper
\* and lower case, and each with one character replaced by a bad one.
InputStrings ==
    LET good == {LetterString(len, ab[1], ab[2]) :
                    len \in 0..MaxStrLen, ab \in {<<0, 0>>, <<1, 0>>, <<5, 8>>}}
    IN  good \cup
        UNION {{[g EXCEPT ![i] = c] : i \in 1..Len(g), c \in BadChars} : g \in good}

NoState == [p \in {} |-> "White"]

InitParse ==
    /\ overflow_checks = TRUE
    /\ pc = "parse_input"
    /\ n = 0
    /\ data = NoState
    /\ data2 = NoState
    /\ mv = <<>>
    /\ t1 = FaceBased("Up", FALSE, 0, 3)
    /\ t2 = t1
    /\ s \in InputStrings
    /\ res = [outcome |-> "none"]

\* res = RubiksCubeState::from_state_string(&s); on Ok the state exists
Parse ==
    /\ pc = "parse_input"
    /\ pc' = "parsed"
    /\ res' = from_state_string(s)
    /\ IF from_state_string(s).outcome = "Ok"
       THEN n' = from_state_string(s).n /\ data' = from_state_string(s).data
       ELSE UNCHANGED <<n, data>>
    /\ UNCHANGED <<overflow_checks, data2, mv, t1, t2, s>>

NextParse ==
    \/ Parse

SpecParse == InitParse /\ [][NextParse]_vars

----------------------------------------------------------------------------
(* SpecTurn: the Turn algebra.  The driver holds a Turn t1 for a cube of   *)
(* size n and converts it (res is the running value, mv the conversions    *)
(* made), compares it with a second Turn, or hands it to turn() on a       *)
(* freshly solved cube.                                                    *)

Ceil2(k) == (k + 1) \div 2

\* Every Turn value the driver builds for size nn: the face-based turns of
\* all_turns, and axis-based turns with any index up to the ceiling of nn/2.
TurnInputs(nn) ==
    all_turns(nn) \cup
    {AxisBased(a, r, i, nn) : a \in Axes, r \in BOOLEAN, i \in (-Ceil2(nn))..Ceil2(nn)}

\* A turn the cube of its size can make.
ValidTurn(t) ==
    IF t.kind = "FaceBased"
    THEN t.num_in < t.cube_size \div 2
    ELSE 1 <= Abs(t.index) /\ Abs(t.index) <= t.cube_size \div 2

Panic == [outcome |-> "panic"]

InitTurn ==
    /\ overflow_checks \in BOOLEAN
    /\ pc = "turn_input"
    /\ n \in 2..MaxTurnN
    /\ t1 \in TurnInputs(n)
    /\ t2 = t1
    /\ res = t1
    /\ mv = <<>>
    /\ data = std_solved_nxnxn(n)
    /\ data2 = data
    /\ s = <<>>

\* res = res.into_face_based()
IntoFaceBased ==
    /\ pc \in {"turn_input", "converting"}
    /\ res # Panic
    /\ Len(mv) < 2
    /\ pc' = "converting"
    /\ mv' = Append(mv, "face")
    /\ res' = IF overflow_checks /\ into_face_based_overflows(res)
              THEN Panic ELSE into_face_based(res)
    /\ UNCHANGED <<overflow_checks, n, data, data2, t1, t2, s>>

\* res = res.into_axis_based()
IntoAxisBased ==
    /\ pc \in {"turn_input", "converting"}
    /\ res # Panic
    /\ Len(mv) < 2
    /\ pc' = "converting"
    /\ mv' = Append(mv, "axis")
    /\ res' = into_axis_based(res)
    /\ UNCHANGED <<overflow_checks, n, data, data2, t1, t2, s>>

\* t1 == u and u == t1, for a turn u of any size
Compare ==
    /\ pc = "turn_input"
    /\ pc' = "compared"
    /\ \E m \in 2..MaxTurnN : \E u \in TurnInputs(m) :
          /\ t2' = u
          /\ res' = [ab |-> IF overflow_checks /\ t1.kind = "FaceBased"
                               /\ into_face_based_overflows(u)
                            THEN "panic" ELSE Turn_eq(t1, u),
                     ba |-> IF overflow_checks /\ u.kind = "FaceBased"
                               /\ into_face_based_overflows(t1)
                            THEN "panic" ELSE Turn_eq(u, t1)]
    /\ UNCHANGED <<overflow_checks, n, data, data2, mv, t1, s>>

\* state.turn(t1) on the solved cube of size n
TurnOnSolved ==
    /\ pc = "turn_input"
    /\ pc' = "turned"
    /\ IF turn_panics(n, t1, overflow_checks)
       THEN res' = Panic /\ data' = data
       ELSE res' = [outcome |-> "ok"] /\ data' = turn(data, n, t1)
    /\ UNCHANGED <<overflow_checks, n, data2, mv, t1, t2, s>>

NextTurn ==
    \/ IntoFaceBased
    \/ IntoAxisBased
    \/ Compare
    \/ TurnOnSolved

SpecTurn == InitTurn /\ [][NextTurn]_vars

----------------------------------------------------------------------------
(* Properties of the Turn algebra, checked under SpecTurn.                 *)

\* t1 is a face-based turn of the size-n cube with layers-in < n/2
FaceInput == t1.kind = "FaceBased" /\ t1.num_in < n \div 2

\* C2: for a face-based turn t with layers-in < n/2, converting to face-based
\* and then to axis-based equals (==) converting to axis-based, converting
\* to axis-based and then to face-based equals converting to face-based, and
\* the way to axis-based and back reproduces t field for field.
C2_RoundTrip ==
    FaceInput =>
        /\ mv = <<"face", "axis">> => Turn_eq(res, into_axis_based(t1))
        /\ mv = <<"axis", "face">> =>
              /\ Turn_eq(res, into_face_based(t1))
              /\ res.kind = "FaceBased"
              /\ res.face = t1.face
              /\ res.inv = t1.inv
              /\ res.num_in = t1.num_in
              /\ res.cube_size = t1.cube_size
        /\ mv = <<"axis">> => res.kind = "AxisBased" /\ res.index # 0

C2_Witness ==
    /\ mv = <<"axis", "face">>
    /\ t1 = FaceBased("Right", TRUE, 1, 5)
    /\ res = t1

\* What C3 promises of an accepted axis-based turn.
AxisTurnLegal ==
    /\ res = [outcome |-> "ok"]
    /\ ~into_face_based_overflows(t1)
    /\ into_face_based(t1).num_in = n \div 2 - Abs(t1.index)
    /\ into_face_based(t1).num_in >= 0
    /\ into_face_based(t1).num_in < n \div 2

\* C3 as claimed: every axis-based turn with 1 <= |index| <= ceil(n/2) is
\* legal: into_face_based gives layers-in = n/2 - |index| in 0..n/2-1 without
\* unsigned underflow, and turn() accepts it on a size-n cube.
C3_CeilRange ==
    (/\ pc = "turned"
     /\ t1.kind = "AxisBased"
     /\ 1 <= Abs(t1.index)
     /\ Abs(t1.index) <= Ceil2(n)) => AxisTurnLegal

\* C3 as amended: the same for 1 <= |index| <= floor(n/2).
C3_FloorRange ==
    (/\ pc = "turned"
     /\ t1.kind = "AxisBased"
     /\ 1 <= Abs(t1.index)
     /\ Abs(t1.index) <= n \div 2) => AxisTurnLegal

C3_Witness ==
    /\ pc = "turned"
    /\ t1 = AxisBased("Y", TRUE, -2, 5)
    /\ res = [outcome |-> "ok"]
    /\ data # std_solved_nxnxn(n)

\* The face-based normal forms of a and b agree on every field.
NormalFormsAgree(a, b) ==
    LET fa == into_face_based(a)
        fb == into_face_based(b)
    IN  /\ fa.face = fb.face
        /\ fa.inv = fb.inv
        /\ fa.num_in = fb.num_in
        /\ fa.cube_size = fb.cube_size

\* C4: for valid turns a and b, a == b iff the face-based normal forms agree
\* on face, invert flag, layers-in and cube size; so a == b iff b == a, a
\* turn equals its own conversion, and turns of different sizes differ.
C4_TurnEq ==
    (pc = "compared" /\ ValidTurn(t1) /\ ValidTurn(t2)) =>
        /\ res.ab = NormalFormsAgree(t1, t2)
        /\ res.ba = res.ab
        /\ (t2 = into_axis_based(t1) \/ t2 = into_face_based(t1)) => res.ab = TRUE
        /\ t1.cube_size # t2.cube_size => res.ab = FALSE

C4_Witness ==
    /\ pc = "compared"
    /\ t1 = AxisBased("X", FALSE, -1, 4)
    /\ t2 = FaceBased("Right", TRUE, 1, 4)
    /\ res = [ab |-> TRUE, ba |-> TRUE]

----------------------------------------------------------------------------
(* Properties of the cube operations, checked under SpecCube.              *)

\* C1: do_move(M) followed by do_move(M.invert()), and do_move(M.invert())
\* followed by do_move(M), leave the facelet array equal to the state S
\* they started from; from the solved cube both end in a solved state.
C1_InversionLaw ==
    pc \in {"undone", "redone"} =>
        /\ data = data2
        /\ data2 = std_solved_nxnxn(n) => is_solved(data, n)

C1_Witness ==
    /\ pc = "undone"
    /\ n = 4
    /\ mv = <<FaceBased("Front", FALSE, 1, 4), FaceBased("Left", TRUE, 0, 4)>>
    /\ data2 # std_solved_nxnxn(4)
    /\ do_move(data2, n, mv) # data2

\* The pair of opposite faces a turn belongs to (Up = +Z, Down = -Z, ...).
FacePair(t) ==
    LET f == into_face_based(t).face
    IN  CASE f \in {"Up", "Down"} -> "UD"
          [] f \in {"Left", "Right"} -> "LR"
          [] f \in {"Front", "Back"} -> "FB"

\* C5: commutes_with(a, b) is true iff a and b turn about the same axis
\* (the same pair of opposite faces), and whenever it is true, a then b
\* gives the same facelet array as b then a.
C5_CommutesSound ==
    pc = "two_orders" =>
        /\ res = (FacePair(t1) = FacePair(t2))
        /\ res = TRUE => data = data2

C5_Witness ==
    /\ pc = "two_orders"
    /\ n = 4
    /\ t1 = FaceBased("Up", FALSE, 1, 4)
    /\ t2 = AxisBased("Z", TRUE, -2, 4)
    /\ res = TRUE
    /\ data = data2
    /\ data # turn(data, n, t1)

\* C6: for an even size, rotate_cube(A) gives exactly the state that turning
\* every slice of axis A in the positive direction gives.
C6_RotateIsAllSlices ==
    (pc = "rotated" /\ n % 2 = 0) => data = data2

C6_Witness ==
    /\ pc = "rotated"
    /\ n = 4
    /\ Len(mv) = 4
    /\ mv[1] = AxisBased("Y", TRUE, -2, 4)
    /\ data = data2
    /\ data # rotate_cube(data, n, "Y")

----------------------------------------------------------------------------
(* Properties of is_solved, checked under SpecSolved.                      *)

\* Every face block of d shows one color only.
UniformFaces(d, nn) ==
    \A face \in 0..5 :
        Cardinality({d[nn * nn * face + i] : i \in 0..(nn * nn - 1)}) = 1

\* C7: is_solved() is true iff, for each of the 6 face blocks, all n*n
\* facelets of the block have the same color, whichever color is on which
\* face; std_solved_nxnxn(n) is solved for every n in 2..9.
C7_IsSolvedIffUniform ==
    /\ res.solved = UniformFaces(data, n)
    /\ pc = "fresh" => res.solved = TRUE

C7_Witness ==
    /\ pc = "rotated"
    /\ n = 3
    /\ data[0] # "White"
    /\ res.solved = TRUE

C7_WitnessNotSolved ==
    /\ pc = "corrupted"
    /\ n = 4
    /\ data[95] # data[94]
    /\ \A p \in 0..94 : data[p] = data2[p]
    /\ is_solved(data2, n)
    /\ res.solved = FALSE

C7_WitnessLargest ==
    /\ pc = "fresh"
    /\ n = 9
    /\ res.solved = TRUE

\* C8: in a state reached from the solved cube by one or more turns, one
\* facelet replaced by a different color gives a state is_solved() rejects.
C8_CorruptedNotSolved ==
    (pc = "corrupted" /\ res.turns >= 1) => res.solved = FALSE

C8_Witness ==
    /\ pc = "corrupted"
    /\ res.turns = 2
    /\ is_solved(data2, n)
    /\ data[23] # data2[23]
    /\ \A p \in 0..22 : data[p] = data2[p]
    /\ res.solved = FALSE

C8_WitnessScrambled ==
    /\ pc = "corrupted"
    /\ res.turns >= 1
    /\ ~is_solved(data2, n)
    /\ data # data2
    /\ res.solved = FALSE

----------------------------------------------------------------------------
(* Properties of from_state_string, checked under SpecParse.               *)

\* The length is 6*k*k for a positive k.
ValidLength(len) == \E k \in 1..len : len = 6 * k * k

\* C9: from_state_string returns an InvalidData error and constructs no
\* state for every string, the empty one included, whose length is not
\* 6*n*n for a positive n; for a string of such a length over the letters
\* W,G,R,B,O,Y in either case it returns the state of size n whose facelet i
\* is the color that character i names.
C9_ParseByLength ==
    pc = "parsed" =>
        /\ ~ValidLength(Len(s)) =>
              /\ res = [outcome |-> "Err", kind |-> "InvalidData"]
              /\ data = NoState
        /\ (ValidLength(Len(s)) /\ \A i \in 1..Len(s) : to_ascii_lowercase(s[i]) \in ColorLetters) =>
              /\ res.outcome = "Ok"
              /\ Len(s) = 6 * res.n * res.n
              /\ data = res.data
              /\ DOMAIN res.data = 0..(Len(s) - 1)
              /\ \A i \in 0..(Len(s) - 1) :
                    to_ascii_lowercase(as_char(res.data[i])) = to_ascii_lowercase(s[i + 1])

\* C10: on a string of a valid length 6*n*n with a character outside
\* W,G,R,B,O,Y (in either case) from_state_string returns an error value:
\* it constructs no state and does not abort.
C10_BadCharIsError ==
    (/\ pc = "parsed"
     /\ ValidLength(Len(s))
     /\ \E i \in 1..Len(s) : to_ascii_lowercase(s[i]) \notin ColorLetters) =>
        /\ res.outcome = "Err"
        /\ data = NoState

----------------------------------------------------------------------------
(* Changing the cube size of turns and moves, and the projection of a cube *)
(* to the 2x2x2 cube of its corners.                                       *)

\* test_change_cube_size runs `for n in 2..10` (exclusive)
ChangeSizeTestMaxN == 9

\* Turn::change_cube_size_hold_face: Err(()) or Ok(the turn, num_in kept)
Turn_change_cube_size_hold_face(t, new_cube_size) ==
    LET f == into_face_based(t)
    IN  IF f.num_in >= new_cube_size \div 2
        THEN [outcome |-> "Err"]
        ELSE [outcome |-> "Ok",
              turn |-> FaceBased(f.face, f.inv, f.num_in, new_cube_size)]

\* Move::change_cube_size_hold_face: the turns that are Ok, unwrapped, in order
RECURSIVE Move_change_cube_size_hold_face(_, _)
Move_change_cube_size_hold_face(m, new_cube_size) ==
    IF m = <<>> THEN <<>>
    ELSE LET r == Turn_change_cube_size_hold_face(Head(m), new_cube_size)
             rest == Move_change_cube_size_hold_face(Tail(m), new_cube_size)
         IN  IF r.outcome = "Ok" THEN <<r.turn>> \o rest ELSE rest

\* The fold of from_corners_to_2x2x2 over the 6n chunks (rows) of the data,
\* from chunk i on: the first and last facelet of the first and last row of
\* every face are pushed to v.
RECURSIVE CornersFold(_, _, _, _)
CornersFold(d, nn, i, v) ==
    IF i >= 6 * nn THEN v
    ELSE CornersFold(d, nn, i + 1,
                     IF i % nn = 0 \/ i % nn = nn - 1
                     THEN v \o <<d[i * nn], d[i * nn + nn - 1]>>
                     ELSE v)

\* from_corners_to_2x2x2 that takes the second facelet of a row, not the last
from_corners_second_column(d, nn) ==
    [p \in 0..23 |->
        LET row == (p \div 4) * nn + (IF (p \div 2) % 2 = 0 THEN 0 ELSE nn - 1)
        IN  d[row * nn + (p % 2)]]

\* RubiksCubeState::from_corners_to_2x2x2 (the data; n is 2)
from_corners_to_2x2x2(d, nn) ==
    LET v == CornersFold(d, nn, 0, <<>>)
    IN  [p \in 0..(Len(v) - 1) |-> v[p + 1]]

----------------------------------------------------------------------------
(* SpecCorners: the driver of test_change_cube_size.  A cube of size n in  *)
(* 2..ChangeSizeTestMaxN, possibly scrambled by one turn (sizes up to      *)
(* MaxN), makes a turn t (data); the 2x2x2 cube of its corners, taken      *)
(* before the turn, makes the Move <<t>>.change_cube_size_hold_face(2)     *)
(* (data2, the Move in mv).                                                *)

\* Digit k of the position within the face, in base 6, as a color letter:
\* with the solved cube these tell every position of a cube up to size 14
\* from every other.
DigitString(nn, k) ==
    [i \in 1..(6 * nn * nn) |->
        as_char(Color[((((i - 1) % (nn * nn)) \div (6 ^ (k - 1))) % 6) + 1])]

CornerStartStates(nn) ==
    {std_solved_nxnxn(nn)} \cup {from_state_string(DigitString(nn, k)).data : k \in 1..3}

InitCorners ==
    /\ overflow_checks = TRUE
    /\ pc = "corner_start"
    /\ n \in 2..ChangeSizeTestMaxN
    /\ data \in CornerStartStates(n)
    /\ data2 = from_corners_to_2x2x2(data, n)
    /\ mv = <<>>
    /\ t1 = FaceBased("Up", FALSE, 0, n)
    /\ t2 = t1
    /\ s = <<>>
    /\ res = FALSE

\* state.turn(t) before the projection is taken
CornerScramble ==
    /\ pc = "corner_start"
    /\ n <= MaxN
    /\ pc' = "corner_scrambled"
    /\ \E t \in all_turns(n) :
          /\ data' = turn(data, n, t)
          /\ data2' = from_corners_to_2x2x2(turn(data, n, t), n)
    /\ UNCHANGED <<overflow_checks, n, mv, t1, t2, s, res>>

\* state.turn(t) on the cube; do_move(<<t>>.change_cube_size_hold_face(2)) on
\* the 2x2x2 cube of its corners
ProjectTurn ==
    /\ pc \in {"corner_start", "corner_scrambled"}
    /\ pc' = "projected"
    /\ \E t \in BothForms(n) :
          LET m2 == Move_change_cube_size_hold_face(<<t>>, 2)
          IN  /\ t1' = t
              /\ mv' = m2
              /\ data' = turn(data, n, t)
              /\ data2' = do_move(data2, 2, m2)
    /\ UNCHANGED <<overflow_checks, n, t2, s, res>>

NextCorners ==
    \/ CornerScramble
    \/ ProjectTurn

SpecCorners == InitCorners /\ [][NextCorners]_vars

----------------------------------------------------------------------------
(* Properties of the corner projection, checked under SpecCorners.         *)

\* C11: for every size n in 2..9, every state S and every valid turn t: if t
\* has layers-in 0, the corners of (S after t) are the corners of S after the
\* turn t.change_cube_size_hold_face(2), which keeps t's face and sense; if t
\* has layers-in 1 or more, the corners of (S after t) are the corners of S.
C11_CornerHomomorphism ==
    pc = "projected" =>
        LET f == into_face_based(t1)
        IN  /\ from_corners_to_2x2x2(data, n) = data2
            /\ f.num_in = 0 => mv = <<FaceBased(f.face, f.inv, 0, 2)>>
            /\ f.num_in >= 1 => mv = <<>>

\* an inner slice of the largest cube was turned after a scramble-free start,
\* and an outer layer of a scrambled cube of size 3 or more was turned
C11_Witness ==
    /\ pc = "projected"
    /\ n = ChangeSizeTestMaxN
    /\ into_face_based(t1).num_in >= 1
    /\ data2 # from_corners_to_2x2x2(std_solved_nxnxn(n), n)

\* an outer layer was turned: the corners moved
C11_WitnessOuter ==
    /\ pc = "projected"
    /\ n >= 3
    /\ mv # <<>>
    /\ t1.kind = "AxisBased"
    /\ data2 # from_corners_to_2x2x2(std_solved_nxnxn(n), n)

----------------------------------------------------------------------------
(* The reference orientation of a 2x2x2 cube and impl Hash.                *)

\* the test both loops make: the cubie at the bottom back right shows
\* blue, orange and yellow
Oriented(d) == d[15] = "Blue" /\ d[18] = "Orange" /\ d[23] = "Yellow"

\* Turns and rotations move facelets without looking at them: the data after
\* one is the data before, read at the positions the operation reads them
\* from.  For the sizes the solver is run on, these positions are computed
\* once, from turn and rotate_cube applied to the positions themselves.
Positions(nn) == [p \in 0..(6 * nn * nn - 1) |-> p]

\* the largest cube the solvers are run on
MaxSolveN == 4

TurnPositions ==
    [nn \in 2..MaxSolveN |-> [t \in all_turns(nn) |-> turn(Positions(nn), nn, t)]]

RotatePositions2 == [axis \in Axes |-> rotate_cube(Positions(2), 2, axis)]

\* d read at the positions q
Permuted(d, q) == [p \in DOMAIN q |-> d[q[p]]]

\* RubiksCubeState::turn for a turn of all_turns (by positions for the sizes
\* the solvers are run on)
turn_of_all_turns(d, nn, t) == Permuted(d, TurnPositions[nn][t])

\* RubiksCubeState::rotate_cube of a 2x2x2 cube, by positions
rotate_cube_2x2x2(d, axis) == Permuted(d, RotatePositions2[axis])

\* TRUE.  TLC keeps a function constructor unevaluated until the function is
\* compared; a loop that rebuilds the data compares it on every run, which
\* keeps the nesting of unevaluated constructors flat.
Evaluated(d) == d = d

\* rotate_cube(axis) if cond, else the data as it is
RotateIf(cond, axis, d) ==
    IF cond /\ Evaluated(d) THEN rotate_cube_2x2x2(d, axis) ELSE d

\* the loops of rotate_to_normal_2x2x2 without the rotation about Y
RECURSIVE NormalLoop_no_y(_, _)
NormalLoop_no_y(d, c) ==
    IF c >= 64 THEN [returned |-> "exhausted", data |-> d, tries |-> c]
    ELSE IF Evaluated(d) /\ Oriented(d)
    THEN [returned |-> "found", data |-> d, tries |-> c + 1]
    ELSE LET z == rotate_cube_2x2x2(d, "Z")
             x == IF c % 16 = 15 /\ Evaluated(z) THEN rotate_cube_2x2x2(z, "X") ELSE z
         IN  NormalLoop_no_y(x, c + 1)

\* The three nested `for _ in 0..4` of rotate_to_normal_2x2x2, from the c-th
\* run of the innermost body on (c = 16 * outer + 4 * middle + inner): the
\* test and return, else rotate_cube(Z); rotate_cube(Y) after every fourth
\* run and rotate_cube(X) after every sixteenth.
RECURSIVE NormalLoop(_, _)
NormalLoop(d, c) ==
    IF c >= 64 THEN [returned |-> "exhausted", data |-> d, tries |-> c]
    ELSE IF Evaluated(d) /\ Oriented(d)
    THEN [returned |-> "found", data |-> d, tries |-> c + 1]
    ELSE NormalLoop(RotateIf(c % 16 = 15, "X",
                       RotateIf(c % 4 = 3, "Y", rotate_cube_2x2x2(d, "Z"))),
              c + 1)

\* RubiksCubeState::rotate_to_normal_2x2x2: the data it leaves and how it
\* returned
rotate_to_normal_2x2x2(d, nn) ==
    IF nn # 2 THEN [returned |-> "not_2x2x2", data |-> d, tries |-> 0]
    ELSE NormalLoop(d, 0)

\* `for c in &data { c.hash(state) }`: the colors fed to the hasher, in order
Feed(d) == [i \in 1..Cardinality(DOMAIN d) |-> d[i - 1]]

\* The loops of hash on the clone new_cube, as NormalLoop.
RECURSIVE HashLoop(_, _)
HashLoop(d, c) ==
    IF c >= 64 THEN [outcome |-> "panic"]
    ELSE IF Evaluated(d) /\ Oriented(d) THEN [outcome |-> "Ok", fed |-> Feed(d)]
    ELSE HashLoop(RotateIf(c % 16 = 15, "X",
                       RotateIf(c % 4 = 3, "Y", rotate_cube_2x2x2(d, "Z"))),
              c + 1)

\* hash that feeds the data as it stands
Hash_hash_as_is(d, nn) ==
    IF nn # 2 THEN [outcome |-> "panic"] ELSE [outcome |-> "Ok", fed |-> Feed(d)]

\* impl Hash for RubiksCubeState: what hash feeds to the hasher, or the panic
\* of unimplemented!()
Hash_hash(d, nn) ==
    IF nn # 2 THEN [outcome |-> "panic"]
    ELSE IF Oriented(d) THEN [outcome |-> "Ok", fed |-> Feed(d)]
    ELSE HashLoop(d, 0)

----------------------------------------------------------------------------
(* SpecNormal: the driver of test_hash.  A 2x2x2 cube is scrambled by      *)
(* turns and rotate_cube calls (at most MaxNormSteps of them); a clone     *)
(* (data) is rotated x, y and z times about X, Y and Z while the original  *)
(* (data2) is kept.  Then either both are hashed or the clone is rotated   *)
(* to the reference orientation.                                           *)

\* most turns and rotations of the scramble
MaxNormSteps == 2

\* rotate_cube(axis) k times
RECURSIVE RotateTimes(_, _, _)
RotateTimes(d, axis, k) ==
    IF k = 0 \/ ~Evaluated(d) THEN d ELSE RotateTimes(rotate_cube(d, 2, axis), axis, k - 1)

InitNormal ==
    /\ overflow_checks = TRUE
    /\ pc = "scramble"
    /\ n = 2
    /\ data = std_solved_nxnxn(2)
    /\ data2 = data
    /\ mv = <<>>
    /\ t1 = FaceBased("Up", FALSE, 0, 2)
    /\ t2 = t1
    /\ s = <<>>
    /\ res = [steps |-> 0]

\* state_rnd.turn(t); the clone follows
NormalTurn ==
    /\ pc = "scramble"
    /\ res.steps < MaxNormSteps
    /\ \E t \in all_turns(2) :
          /\ data' = turn(data, 2, t)
          /\ data2' = turn(data, 2, t)
    /\ res' = [steps |-> res.steps + 1]
    /\ UNCHANGED <<overflow_checks, pc, n, mv, t1, t2, s>>

\* state_rnd.rotate_cube(axis); the clone follows
NormalRotate ==
    /\ pc = "scramble"
    /\ res.steps < MaxNormSteps
    /\ \E axis \in Axes :
          /\ data' = rotate_cube(data, 2, axis)
          /\ data2' = rotate_cube(data, 2, axis)
    /\ res' = [steps |-> res.steps + 1]
    /\ UNCHANGED <<overflow_checks, pc, n, mv, t1, t2, s>>

\* x_rots, y_rots and z_rots in 0..4 (exclusive) rotations of the clone
RotateClone ==
    /\ pc = "scramble"
    /\ pc' = "rotated"
    /\ \E x \in 0..3, y \in 0..3, z \in 0..3 :
          /\ mv' = <<x, y, z>>
          /\ data' = RotateTimes(RotateTimes(RotateTimes(data, "X", x), "Y", y), "Z", z)
    /\ UNCHANGED <<overflow_checks, n, data2, t1, t2, s, res>>

\* state_rnd.hash(&mut hasher1); state_rnd2.hash(&mut hasher2)
HashBoth ==
    /\ pc = "rotated"
    /\ pc' = "hashed"
    /\ res' = [h1 |-> Hash_hash(data2, n), h2 |-> Hash_hash(data, n)]
    /\ UNCHANGED <<overflow_checks, n, data, data2, mv, t1, t2, s>>

\* state_rnd2.rotate_to_normal_2x2x2(); res.input keeps the state before
Normalize ==
    /\ pc = "rotated"
    /\ pc' = "normalized"
    /\ LET r == rotate_to_normal_2x2x2(data, n)
       IN  /\ data' = r.data
           /\ res' = [returned |-> r.returned, tries |-> r.tries, input |-> data]
    /\ UNCHANGED <<overflow_checks, n, data2, mv, t1, t2, s>>

\* rotate_to_normal_2x2x2() and hash() on a 2x2x2 cube with one sticker of
\* another color, as from_state_string builds it from any string of 24
\* colors; res.input keeps the state before
NormalizeRecoloured ==
    /\ pc = "scramble"
    /\ pc' = "normalized_any"
    /\ \E p \in 0..23, c \in Colors :
          LET r == rotate_to_normal_2x2x2([data EXCEPT ![p] = c], n)
          IN  /\ data' = r.data
              /\ res' = [returned |-> r.returned, tries |-> r.tries,
                         input |-> [data EXCEPT ![p] = c],
                         hash |-> Hash_hash([data EXCEPT ![p] = c], n)]
    /\ UNCHANGED <<overflow_checks, n, data2, mv, t1, t2, s>>

NextNormal ==
    \/ NormalTurn
    \/ NormalRotate
    \/ RotateClone
    \/ HashBoth
    \/ Normalize
    \/ NormalizeRecoloured

SpecNormal == InitNormal /\ [][NextNormal]_vars

----------------------------------------------------------------------------
(* Properties of the reference orientation, checked under SpecNormal.      *)

\* The whole-cube rotations as rearrangements of the 24 positions: every
\* composition of rotate_cube calls, applied to the positions themselves.
RECURSIVE RotationClosure(_)
RotationClosure(S) ==
    LET T == S \cup {rotate_cube(q, 2, axis) : q \in S, axis \in Axes}
    IN  IF T = S THEN S ELSE RotationClosure(T)

CubeRotations == RotationClosure({[p \in 0..23 |-> p]})

\* d is e after some composition of rotate_cube calls
IsRotationOf(d, e) == \E q \in CubeRotations : d = [p \in 0..23 |-> e[q[p]]]

\* C12: for every 2x2x2 state reachable from the solved cube by turns and
\* rotate_cube calls, rotate_to_normal_2x2x2 returns from inside its 64 loop
\* runs, with facelets 15, 18 and 23 blue, orange and yellow, and the state
\* it leaves is the input after a whole-cube rotation.
C12_NormalFound ==
    pc = "normalized" =>
        /\ res.returned = "found"
        /\ res.tries <= 64
        /\ data[15] = "Blue" /\ data[18] = "Orange" /\ data[23] = "Yellow"
        /\ IsRotationOf(data, res.input)

\* the cubie was out of place: the call had to rotate about more than Z
C12_Witness ==
    /\ pc = "normalized"
    /\ res.returned = "found"
    /\ res.tries > 16
    /\ data # res.input
    /\ ~is_solved(data, 2)

\* C13: for every reachable 2x2x2 state S and every S' obtained from S by
\* rotate_cube calls, hash feeds the same 24 colors in the same order for S
\* and for S' (and reaches unimplemented!() for neither).
C13_HashRotationInvariant ==
    pc = "hashed" =>
        /\ res.h1.outcome = "Ok"
        /\ res.h2.outcome = "Ok"
        /\ Len(res.h1.fed) = 24
        /\ res.h1.fed = res.h2.fed

\* a scrambled state and a rotation of it that is another facelet array
C13_Witness ==
    /\ pc = "hashed"
    /\ data # data2
    /\ ~is_solved(data, 2)
    /\ ~Oriented(data)
    /\ ~Oriented(data2)
    /\ res.h1.outcome = "Ok"

----------------------------------------------------------------------------
(* solver.rs: HeuristicsTables, the corner table.                          *)

\* the depth to which the model builds the corner table
MaxTableDepth == 5

\* the depth at which calc_corner_heuristics_table stops expanding
CornerTableDepth == 14

ModelTableDepth == IF MaxTableDepth < CornerTableDepth THEN MaxTableDepth ELSE CornerTableDepth

\* Most turns of the scramble handed to a solver.  A search for a solution of
\* a scramble of k turns looks up states up to 2k + 1 turns from solved: the
\* scrambles are as long as the table the model builds allows.
MaxSolveScramble == (ModelTableDepth - 1) \div 2

\* all_turns().into_iter().filter(..index > 0): the turns with a positive index
\* the positive-index turns of one sense only
PositiveTurns_one_sense(nn) ==
    {t \in all_turns(nn) : into_axis_based(t).index > 0 /\ t.inv}

PositiveTurns(nn) == {t \in all_turns(nn) : into_axis_based(t).index > 0}

\* The loop of calc_corner_heuristics_table.  The queue is first in, first
\* out and starts with (solved, 0), so its entries leave it in the order of
\* i, and an entry whose state is already a key is skipped: the states
\* inserted with i + 1 are those one positive turn from a state inserted with
\* i that are not keys by then.  levels[i + 1] is the set of states inserted
\* with value i.
RECURSIVE TableLoop(_, _)
TableLoop(levels, keys) ==
    LET i == Len(levels) - 1
        found == {turn_of_all_turns(st, 2, t) : st \in levels[i + 1], t \in PositiveTurns(2)}
        fresh == found \ keys
    IN  IF i >= ModelTableDepth \/ fresh = {} THEN levels
        ELSE TableLoop(Append(levels, fresh), keys \cup fresh)

\* HeuristicsTables.corners after calc_corner_heuristics_table
CornerTable == TableLoop(<<{std_solved_nxnxn(2)}>>, {std_solved_nxnxn(2)})

\* a get that gives the value one too high
CornerTable_get_level(corner_ht, d) ==
    IF Hash_hash(d, 2).outcome = "panic" THEN [outcome |-> "panic"]
    ELSE IF \E i \in 1..Len(corner_ht) : d \in corner_ht[i]
    THEN [outcome |-> "Some", v |-> CHOOSE i \in 1..Len(corner_ht) : d \in corner_ht[i]]
    ELSE [outcome |-> "None"]

\* HashMap::get on the corner table: Some(value) or None; the key is hashed
\* first, and hash panics on a key it cannot bring to the reference
\* orientation.
CornerTable_get(corner_ht, d) ==
    IF Hash_hash(d, 2).outcome = "panic" THEN [outcome |-> "panic"]
    ELSE IF \E i \in 1..Len(corner_ht) : d \in corner_ht[i]
    THEN [outcome |-> "Some", v |-> (CHOOSE i \in 1..Len(corner_ht) : d \in corner_ht[i]) - 1]
    ELSE [outcome |-> "None"]

\* RubiksCubeSolver.heuristic_table: None, or the tables with corners computed
NoTables == [outcome |-> "None"]

ComputedTables == [outcome |-> "Some", corners |-> CornerTable]

\* HashMap::len of the corner table (num_pos)
CornerTable_len == Cardinality(UNION {CornerTable[i] : i \in 1..Len(CornerTable)})

----------------------------------------------------------------------------
(* Move::is_next_turn_efficient and the order of all_turns.                *)

\* all_turns with the outer layer of each face only
all_turns_vec_outer_layer(nn) ==
    [q \in 1..12 |-> FaceBased(Face[((q - 1) \div 2) + 1], (q - 1) % 2 = 0, 0, nn)]

\* RubiksCubeState::all_turns as the Vec it returns: per face in the order of
\* the face ids, per layer, the inverted turn and then the plain one
all_turns_vec(nn) ==
    LET h == nn \div 2
    IN  [q \in 1..(12 * h) |->
            FaceBased(Face[((q - 1) \div (2 * h)) + 1], (q - 1) % 2 = 0,
                      ((q - 1) % (2 * h)) \div 2, nn)]

\* is_next_turn_efficient that asks for a strictly smaller index after a
\* commuting turn
is_next_turn_efficient_strict(m, next_turn) ==
    IF m = <<>> THEN TRUE
    ELSE LET last_turn == m[Len(m)]
             nt == into_axis_based(next_turn)
             lt == into_axis_based(last_turn)
         IN  IF Turn_eq(Turn_invert(last_turn), next_turn) THEN FALSE
             ELSE IF /\ Len(m) > 1
                     /\ Turn_eq(m[Len(m) - 1], last_turn)
                     /\ Turn_eq(last_turn, next_turn)
             THEN FALSE
             ELSE IF commutes_with(next_turn, last_turn)
             THEN nt.axis # lt.axis \/ nt.index < lt.index
             ELSE TRUE

\* is_next_turn_efficient that accepts no turn of another layer after a
\* commuting turn
is_next_turn_efficient_no_commuting(m, next_turn) ==
    IF m = <<>> THEN TRUE
    ELSE LET last_turn == m[Len(m)]
             nt == into_axis_based(next_turn)
             lt == into_axis_based(last_turn)
         IN  IF Turn_eq(Turn_invert(last_turn), next_turn) THEN FALSE
             ELSE IF /\ Len(m) > 1
                     /\ Turn_eq(m[Len(m) - 1], last_turn)
                     /\ Turn_eq(last_turn, next_turn)
             THEN FALSE
             ELSE IF commutes_with(next_turn, last_turn)
             THEN nt.axis # lt.axis \/ nt.index = lt.index
             ELSE TRUE

\* is_next_turn_efficient without the test for three equal turns in a row
is_next_turn_efficient_no_triple(m, next_turn) ==
    IF m = <<>> THEN TRUE
    ELSE LET last_turn == m[Len(m)]
             nt == into_axis_based(next_turn)
             lt == into_axis_based(last_turn)
         IN  IF Turn_eq(Turn_invert(last_turn), next_turn) THEN FALSE
             ELSE IF commutes_with(next_turn, last_turn)
             THEN nt.axis # lt.axis \/ nt.index <= lt.index
             ELSE TRUE

\* Move::is_next_turn_efficient
is_next_turn_efficient(m, next_turn) ==
    IF m = <<>> THEN TRUE
    ELSE LET last_turn == m[Len(m)]
             nt == into_axis_based(next_turn)
             lt == into_axis_based(last_turn)
         IN  IF Turn_eq(Turn_invert(last_turn), next_turn) THEN FALSE
             ELSE IF /\ Len(m) > 1
                     /\ Turn_eq(m[Len(m) - 1], last_turn)
                     /\ Turn_eq(last_turn, next_turn)
             THEN FALSE
             ELSE IF commutes_with(next_turn, last_turn)
             THEN CASE lt.axis = "Z" -> nt.axis # "Z" \/ nt.index <= lt.index
                    [] lt.axis = "Y" -> nt.axis # "Y" \/ nt.index <= lt.index
                    [] lt.axis = "X" -> nt.axis # "X" \/ nt.index <= lt.index
             ELSE TRUE

----------------------------------------------------------------------------
(* solver.rs: RubiksCubeSolver.  heuristic_table is the field of that name: *)
(* NoTables or ComputedTables.                                             *)

Unsolveable == [outcome |-> "Err", kind |-> "Unsolveable"]

\* calc_corner_heuristics that looks the corners up as they stand
calc_corner_heuristics_unrotated(d, nn, heuristic_table) ==
    IF heuristic_table.outcome = "None" THEN [outcome |-> "None"]
    ELSE CornerTable_get(heuristic_table.corners, from_corners_to_2x2x2(d, nn))

\* RubiksCubeSolver::calc_corner_heuristics
calc_corner_heuristics(d, nn, heuristic_table) ==
    IF heuristic_table.outcome = "None" THEN [outcome |-> "None"]
    ELSE CornerTable_get(heuristic_table.corners,
                         rotate_to_normal_2x2x2(from_corners_to_2x2x2(d, nn), 2).data)

\* The turns solve_dpll pushes after the node with Move m, in the order pushed.
DpllPushed(m, nn) ==
    SelectSeq(all_turns_vec(nn), LAMBDA t : is_next_turn_efficient(m, t))

RECURSIVE DpllLoop(_, _, _, _, _, _, _)

\* solve_dpll at a node (mut_move, mut_state) at level i < k that is not
\* solved, h its corner heuristic if one was asked for: the node is skipped
\* when h_val > k - 1, else its entries are pushed (and popped before any
\* other).
DpllCut(h, mut_move, mut_state, i, k, nn, heuristic_table) ==
    IF h.outcome = "panic" THEN h
    ELSE IF h.outcome = "Some" /\ h.v > k - 1 THEN Unsolveable
    ELSE DpllLoop(mut_move, mut_state, DpllPushed(mut_move, nn), i + 1, k, nn,
                  heuristic_table)

\* the body that still goes on from a node at level k
DpllMade_one_deeper(mut_move, mut_state, i, k, nn, heuristic_table) ==
    IF Evaluated(mut_state) /\ is_solved(mut_state, nn)
    THEN [outcome |-> "Ok", move |-> mut_move]
    ELSE IF i > k THEN Unsolveable
    ELSE DpllCut([outcome |-> "None"], mut_move, mut_state, i, k, nn, heuristic_table)

\* The body of the while loop of solve_dpll once the turn of the popped entry
\* is made and state_history[i] = (mut_move, mut_state): Ok if solved;
\* nothing more for i >= k; else the cut by the corner heuristic (asked for if
\* size > 2 and k - i < 14) or the push.
DpllMade(mut_move, mut_state, i, k, nn, heuristic_table) ==
    IF Evaluated(mut_state) /\ is_solved(mut_state, nn)
    THEN [outcome |-> "Ok", move |-> mut_move]
    ELSE IF i >= k THEN Unsolveable
    ELSE DpllCut(IF nn > 2 /\ k - i < CornerTableDepth
                 THEN calc_corner_heuristics(mut_state, nn, heuristic_table)
                 ELSE [outcome |-> "None"],
                 mut_move, mut_state, i, k, nn, heuristic_table)

\* The loop goes on with the entries under the popped one unless the search
\* below it has returned.
DpllRest(below, m, st, ts, i, k, nn, heuristic_table) ==
    IF below # Unsolveable THEN below
    ELSE DpllLoop(m, st, SubSeq(ts, 1, Len(ts) - 1), i, k, nn, heuristic_table)

\* The while loop of solve_dpll while the entries pushed for state_history[i - 1]
\* = (m, st) are on the stack: ts are those not yet popped (the last is popped
\* first).
DpllLoop(m, st, ts, i, k, nn, heuristic_table) ==
    IF ts = <<>> THEN Unsolveable
    ELSE DpllRest(DpllMade(Append(m, ts[Len(ts)]), turn_of_all_turns(st, nn, ts[Len(ts)]),
                           i, k, nn, heuristic_table),
                  m, st, ts, i, k, nn, heuristic_table)

\* RubiksCubeSolver::solve_dpll
solve_dpll(d, nn, k, heuristic_table) ==
    IF is_solved(d, nn) THEN [outcome |-> "Ok", move |-> <<>>]
    ELSE IF k <= 0 THEN Unsolveable
    ELSE DpllLoop(<<>>, d, all_turns_vec(nn), 1, k, nn, heuristic_table)

NoHeuristicsTable == [outcome |-> "Err", kind |-> "NoHeuristicsTable"]

RECURSIVE GreedyNextTurn(_, _, _, _)

\* the test that takes any turn the table knows
GreedyTried_any_value(got, corner_ht, this_state, v_left, j) ==
    IF got.outcome = "panic" THEN got
    ELSE IF got.outcome = "Some"
    THEN [outcome |-> "Some", turn |-> all_turns_vec(2)[j], v |-> got.v]
    ELSE GreedyNextTurn(corner_ht, this_state, v_left, j + 1)

\* `if let Some(new_v) = corner_ht.get(&tmp_state)` for the j-th turn: the
\* turn is taken if new_v < v_left, else the next turn is tried.
GreedyTried(got, corner_ht, this_state, v_left, j) ==
    IF got.outcome = "panic" THEN got
    ELSE IF got.outcome = "Some" /\ got.v < v_left
    THEN [outcome |-> "Some", turn |-> all_turns_vec(2)[j], v |-> got.v]
    ELSE GreedyNextTurn(corner_ht, this_state, v_left, j + 1)

\* The `for turn_type in rubiks_state.all_turns()` of the table solver from the
\* j-th turn on: the first turn after which the table value is below v_left,
\* as Some(turn, new_v), or None.
GreedyNextTurn(corner_ht, this_state, v_left, j) ==
    IF j > Len(all_turns_vec(2)) THEN [outcome |-> "None"]
    ELSE GreedyTried(CornerTable_get(corner_ht,
                         rotate_to_normal_2x2x2(
                             turn_of_all_turns(this_state, 2, all_turns_vec(2)[j]), 2).data),
                     corner_ht, this_state, v_left, j)

RECURSIVE GreedyLoop(_, _, _, _, _)

\* `if let Some(nt) = next_turn {..} else {..}` of the table solver; the
\* todo!() is the panic.
GreedyStep(next_turn, corner_ht, this_state, this_move, left) ==
    IF Evaluated(this_state) /\ next_turn.outcome = "Some"
    THEN GreedyLoop(corner_ht, turn_of_all_turns(this_state, 2, next_turn.turn),
                    Append(this_move, next_turn.turn), next_turn.v, left - 1)
    ELSE IF next_turn.outcome = "None" /\ is_solved(this_state, 2)
    THEN [outcome |-> "Ok", move |-> this_move]
    ELSE [outcome |-> "panic"]

\* The `for _ in 0..v` of the table solver with `left` runs to go.
GreedyLoop(corner_ht, this_state, this_move, v_left, left) ==
    IF left = 0 THEN [outcome |-> "Ok", move |-> this_move]
    ELSE GreedyStep(GreedyNextTurn(corner_ht, this_state, v_left, 1),
                    corner_ht, this_state, this_move, left)

\* the table solver from the lookup of the normalised cube on
GreedyDescend(got, corner_ht, d) ==
    IF got.outcome = "None" THEN Unsolveable
    ELSE IF got.outcome = "panic" THEN got
    ELSE GreedyLoop(corner_ht, d, <<>>, got.v, got.v)

\* the table solver that looks for the table before it looks at the size
solver_2x2x2_table_first(d, nn, heuristic_table) ==
    IF heuristic_table.outcome = "None" THEN NoHeuristicsTable
    ELSE IF nn # 2 THEN [outcome |-> "Err", kind |-> "BadInput"]
    ELSE IF is_solved(d, 2) THEN [outcome |-> "Ok", move |-> <<>>]
    ELSE GreedyDescend(CornerTable_get(heuristic_table.corners,
                                       rotate_to_normal_2x2x2(d, 2).data),
                       heuristic_table.corners, d)

\* RubiksCubeSolver::solver_2x2x2_with_heuristics_table
solver_2x2x2_with_heuristics_table(d, nn, heuristic_table) ==
    IF nn # 2 THEN [outcome |-> "Err", kind |-> "BadInput"]
    ELSE IF heuristic_table.outcome = "None" THEN NoHeuristicsTable
    ELSE IF is_solved(d, 2) THEN [outcome |-> "Ok", move |-> <<>>]
    ELSE GreedyDescend(CornerTable_get(heuristic_table.corners,
                                       rotate_to_normal_2x2x2(d, 2).data),
                       heuristic_table.corners, d)

\* RubiksCubeSolver::calc_heuristics for a cube of size up to 4.  The corner
\* heuristic is the only entry of `heuristics` (the smaller cubes are consulted
\* for size > 4 only), so each of the returns gives it, with a bound or
\* without; None without the table.
calc_heuristics(d, nn, solve_smaller, bound, heuristic_table) ==
    calc_corner_heuristics(d, nn, heuristic_table)

\* state_stack.sort_by_key(|a| a.2): a stable sort, ascending in f
RECURSIVE SortByF(_)
SortByF(stack) ==
    IF Len(stack) <= 1 THEN stack
    ELSE LET front == SortByF(SubSeq(stack, 1, Len(stack) - 1))
             x == stack[Len(stack)]
             keep == Cardinality({j \in 1..Len(front) : front[j].f <= x.f})
         IN  SubSeq(front, 1, keep) \o <<x>> \o SubSeq(front, keep + 1, Len(front))

RECURSIVE IdaChildren(_, _, _, _, _, _, _, _, _)

\* the child is pushed when its f is at most two beyond the bound
IdaPush_beyond_bound(next_h, mut_state, rubiks_move, curr_state, j, stack, min_turns, bound, nn, solve_smaller, heuristic_table) ==
    LET next_f == Len(rubiks_move) + 1 + next_h.v
    IN  IF next_h.outcome = "panic" THEN next_h
        ELSE IF next_h.outcome = "None" THEN NoHeuristicsTable
        ELSE IF next_f > bound + 2
        THEN IdaChildren(rubiks_move, curr_state, j + 1, stack,
                         IF min_turns.outcome = "Some" /\ min_turns.v <= next_f
                         THEN min_turns ELSE [outcome |-> "Some", v |-> next_f],
                         bound, nn, solve_smaller, heuristic_table)
        ELSE IdaChildren(rubiks_move, curr_state, j + 1,
                         Append(stack, [move |-> Append(rubiks_move, all_turns_vec(nn)[j]),
                                        state |-> mut_state, f |-> next_f]),
                         min_turns, bound, nn, solve_smaller, heuristic_table)

\* The child (mut_move, mut_state) with heuristic next_h: beyond the bound it
\* lowers min_turns, else it is pushed; then the next turn.
IdaPush(next_h, mut_state, rubiks_move, curr_state, j, stack, min_turns, bound, nn, solve_smaller, heuristic_table) ==
    LET next_f == Len(rubiks_move) + 1 + next_h.v
    IN  IF next_h.outcome = "panic" THEN next_h
        ELSE IF next_h.outcome = "None" THEN NoHeuristicsTable
        ELSE IF next_f > bound
        THEN IdaChildren(rubiks_move, curr_state, j + 1, stack,
                         IF min_turns.outcome = "Some" /\ min_turns.v <= next_f
                         THEN min_turns ELSE [outcome |-> "Some", v |-> next_f],
                         bound, nn, solve_smaller, heuristic_table)
        ELSE IdaChildren(rubiks_move, curr_state, j + 1,
                         Append(stack, [move |-> Append(rubiks_move, all_turns_vec(nn)[j]),
                                        state |-> mut_state, f |-> next_f]),
                         min_turns, bound, nn, solve_smaller, heuristic_table)

\* the body of the for loop with next_g subtracted twice from min_turns
IdaChild_subtracts_twice(mut_state, rubiks_move, curr_state, j, stack, min_turns, bound, nn, solve_smaller, heuristic_table) ==
    LET next_g == Len(rubiks_move) + 1
        h_bound == IF solve_smaller /\ min_turns.outcome = "Some"
                   THEN [outcome |-> "Some", v |-> min_turns.v - next_g - next_g]
                   ELSE [outcome |-> "None"]
    IN  IF h_bound.outcome = "Some" /\ h_bound.v < 0 THEN [outcome |-> "panic"]
        ELSE IdaPush(calc_heuristics(mut_state, nn, solve_smaller, h_bound, heuristic_table),
                     mut_state, rubiks_move, curr_state, j, stack, min_turns, bound, nn,
                     solve_smaller, heuristic_table)

\* The body of the for loop for the j-th turn, mut_state the state after it.
\* solve_with_idastar hands calc_heuristics the bound min_turns - next_g (a
\* usize subtraction).
IdaChild(mut_state, rubiks_move, curr_state, j, stack, min_turns, bound, nn, solve_smaller, heuristic_table) ==
    LET next_g == Len(rubiks_move) + 1
        h_bound == IF solve_smaller /\ min_turns.outcome = "Some"
                   THEN [outcome |-> "Some", v |-> min_turns.v - next_g]
                   ELSE [outcome |-> "None"]
    IN  IF h_bound.outcome = "Some" /\ h_bound.v < 0 THEN [outcome |-> "panic"]
        ELSE IdaPush(calc_heuristics(mut_state, nn, solve_smaller, h_bound, heuristic_table),
                     mut_state, rubiks_move, curr_state, j, stack, min_turns, bound, nn,
                     solve_smaller, heuristic_table)

\* The `for turn_type in ...filter(is_next_turn_efficient)` of the IDA* search
\* from the j-th turn of all_turns on: pushes the children within the bound
\* and lowers min_turns to the smallest f beyond it.
IdaChildren(rubiks_move, curr_state, j, stack, min_turns, bound, nn, solve_smaller, heuristic_table) ==
    IF j > Len(all_turns_vec(nn))
    THEN [outcome |-> "Ok", stack |-> stack, min_turns |-> min_turns]
    ELSE IF ~is_next_turn_efficient(rubiks_move, all_turns_vec(nn)[j])
    THEN IdaChildren(rubiks_move, curr_state, j + 1, stack, min_turns, bound, nn,
                     solve_smaller, heuristic_table)
    ELSE IdaChild(turn_of_all_turns(curr_state, nn, all_turns_vec(nn)[j]),
                  rubiks_move, curr_state, j, stack, min_turns, bound, nn,
                  solve_smaller, heuristic_table)

RECURSIVE IdaWhile(_, _, _, _, _, _)

\* the while loop goes on with the stack and min_turns the for loop left
IdaGrown(grown, bound, nn, solve_smaller, heuristic_table) ==
    IF grown.outcome # "Ok" THEN grown
    ELSE IdaWhile(grown.stack, grown.min_turns, bound, nn, solve_smaller, heuristic_table)

\* The body of the while loop: the last entry of the sorted stack is popped;
\* Ok if its state is solved, else its children are handled.
IdaPopped(sorted, min_turns, bound, nn, solve_smaller, heuristic_table) ==
    LET top == sorted[Len(sorted)]
    IN  IF Evaluated(top.state) /\ is_solved(top.state, nn)
        THEN [outcome |-> "Ok", move |-> top.move]
        ELSE IdaGrown(IdaChildren(top.move, top.state, 1,
                                  SubSeq(sorted, 1, Len(sorted) - 1), min_turns, bound, nn,
                                  solve_smaller, heuristic_table),
                      bound, nn, solve_smaller, heuristic_table)

\* The `while let Some(..) = {state_stack.sort_by_key(..); state_stack.pop()}`
\* of the IDA* search.
IdaWhile(stack, min_turns, bound, nn, solve_smaller, heuristic_table) ==
    IF stack = <<>> THEN [outcome |-> "Exhausted", min_turns |-> min_turns]
    ELSE IdaPopped(SortByF(stack), min_turns, bound, nn, solve_smaller, heuristic_table)

RECURSIVE IdaLoop(_, _, _, _, _, _)

\* After a pass: its result if it returned, else the next pass with the bound
\* min_turns, or Err(Unsolveable) if min_turns is None.
IdaPassed(pass, d, start_h, nn, solve_smaller, heuristic_table) ==
    IF pass.outcome # "Exhausted" THEN pass
    ELSE IF pass.min_turns.outcome = "Some"
    THEN IdaLoop(d, start_h, pass.min_turns.v, nn, solve_smaller, heuristic_table)
    ELSE Unsolveable

\* the search whose passes allow two turns more than the bound
IdaLoop_loose_bound(d, start_h, bound, nn, solve_smaller, heuristic_table) ==
    IdaPassed(IdaWhile(<<[move |-> <<>>, state |-> d, f |-> start_h]>>,
                       [outcome |-> "None"], bound + 2, nn, solve_smaller, heuristic_table),
              d, start_h, nn, solve_smaller, heuristic_table)

\* The outer `loop` of the IDA* search: one bounded search per pass.
IdaLoop(d, start_h, bound, nn, solve_smaller, heuristic_table) ==
    IdaPassed(IdaWhile(<<[move |-> <<>>, state |-> d, f |-> start_h]>>,
                       [outcome |-> "None"], bound, nn, solve_smaller, heuristic_table),
              d, start_h, nn, solve_smaller, heuristic_table)

\* the IDA* search from start_h on
IdaStarted(start_h, d, nn, solve_smaller, heuristic_table) ==
    IF start_h.outcome = "panic" THEN start_h
    ELSE IF start_h.outcome = "None" THEN NoHeuristicsTable
    ELSE IdaLoop(d, start_h.v, start_h.v, nn, solve_smaller, heuristic_table)

\* RubiksCubeSolver::solve_with_idastar_3x3x3
solve_with_idastar_3x3x3(d, nn, heuristic_table) ==
    IdaStarted(calc_heuristics(d, nn, FALSE, [outcome |-> "None"], heuristic_table),
               d, nn, FALSE, heuristic_table)

\* RubiksCubeSolver::solve_with_idastar
solve_with_idastar(d, nn, heuristic_table) ==
    IdaStarted(calc_heuristics(d, nn, TRUE, [outcome |-> "None"], heuristic_table),
               d, nn, TRUE, heuristic_table)

(***************************************************************************)
(* The solvers run on scrambled cubes.  A cube of size 2..MaxSolveN starts *)
(* solved and is scrambled by up to MaxSolveScramble turns of all_turns;   *)
(* then one of the solvers is run on it.  data keeps the cube handed to    *)
(* the solver, data2 is that cube after the Move the solver returned.      *)
(***************************************************************************)
\* the largest value of a table entry handed to solve_dpll
MaxEntryDepth == MaxSolveScramble + 1

\* state.do_move(&m) for a Move of turns of all_turns
RECURSIVE do_move_of_all_turns(_, _, _)
do_move_of_all_turns(d, nn, m) ==
    IF m = <<>> \/ ~Evaluated(d) THEN d
    ELSE do_move_of_all_turns(turn_of_all_turns(d, nn, Head(m)), nn, Tail(m))

Solved(d, nn, r) ==
    IF r.outcome = "Ok" THEN do_move_of_all_turns(d, nn, r.move) ELSE d

InitSolver ==
    /\ overflow_checks = TRUE
    /\ pc = "new"
    /\ n \in 2..MaxSolveN
    /\ data = std_solved_nxnxn(n)
    /\ data2 = data
    /\ mv = <<>>
    /\ t1 = FaceBased("Up", FALSE, 0, 2)
    /\ t2 = t1
    /\ s = <<>>
    /\ res = [outcome |-> "none"]

\* state.turn(t) for a turn of state.all_turns()
SolverScramble ==
    /\ pc \in {"new", "scrambled"}
    /\ Len(mv) < MaxSolveScramble
    /\ \E t \in all_turns(n) :
        /\ data' = turn_of_all_turns(data, n, t)
        /\ mv' = Append(mv, t)
    /\ data2' = data'
    /\ pc' = "scrambled"
    /\ UNCHANGED <<overflow_checks, n, t1, t2, s, res>>

\* solver.calc_corner_heuristics(&state), the table computed
Lookup ==
    /\ pc \in {"new", "scrambled"}
    /\ n = 2
    /\ res' = calc_corner_heuristics(data, n, ComputedTables)
    /\ pc' = "looked_up"
    /\ UNCHANGED <<overflow_checks, n, data, data2, mv, t1, t2, s>>

\* calc_corner_heuristics(&state) with the table computed, on a cube larger
\* than 2x2x2: the corners are taken out, normalised and looked up
LookupCorners ==
    /\ pc \in {"new", "scrambled"}
    /\ n > 2
    /\ res' = calc_corner_heuristics(data, n, ComputedTables)
    /\ pc' = "corners_looked_up"
    /\ UNCHANGED <<overflow_checks, n, data, data2, mv, t1, t2, s>>

\* solver.solve_dpll(&state, k), with or without the table
Dpll ==
    /\ pc \in {"new", "scrambled"}
    /\ \E k \in 0..MaxSolveScramble, heuristic_table \in {NoTables, ComputedTables} :
        /\ res' = [k |-> k, has_table |-> heuristic_table.outcome = "Some",
                   result |-> solve_dpll(data, n, k, heuristic_table)]
        /\ data2' = Solved(data, n, res'.result)
    /\ pc' = "dpll"
    /\ UNCHANGED <<overflow_checks, n, data, mv, t1, t2, s>>

\* solver.solve_dpll(&S, d) and solver.solve_dpll(&S, d - 1) for a state S the
\* corner table holds with value d
DpllTableEntry ==
    /\ pc = "new"
    /\ n = 2
    /\ \E d \in 0..MaxEntryDepth :
        \E heuristic_table \in {ComputedTables} :
            \E S \in heuristic_table.corners[d + 1] :
                /\ data' = S
                /\ res' = [d |-> d, result |-> solve_dpll(S, 2, d, heuristic_table),
                           below |-> IF d >= 1 THEN solve_dpll(S, 2, d - 1, heuristic_table)
                                     ELSE [outcome |-> "none"]]
                /\ data2' = Solved(S, 2, res'.result)
    /\ pc' = "entry"
    /\ UNCHANGED <<overflow_checks, n, mv, t1, t2, s>>

\* the states the loop of calc_corner_heuristics_table makes from a state it
\* takes from the queue: one new_state per positive-index turn
\* the states made with every turn of all_turns, the filter left out
Enqueued_all_turns(st) ==
    {turn_of_all_turns(st, 2, t) : t \in all_turns(2)}

Enqueued(st) ==
    {turn_of_all_turns(st, 2, t) : t \in PositiveTurns(2)}

\* d is a key of the corner table
CornerTable_contains_key(d) == \E i \in 1..Len(CornerTable) : d \in CornerTable[i]

\* one pass of the loop of calc_corner_heuristics_table for a state S it
\* inserts with value d: a new_state made from S, and the get of it in the
\* finished table
TableEnqueue ==
    /\ pc = "new"
    /\ n = 2
    /\ \E d \in 0..(ModelTableDepth - 1) :
        \E heuristic_table \in {ComputedTables} :
            \E S \in heuristic_table.corners[d + 1] :
                \E new_state \in Enqueued(S) :
                    /\ data' = S
                    /\ data2' = new_state
                    /\ res' = [d |-> d,
                               normal |-> rotate_to_normal_2x2x2(new_state, 2),
                               value |-> CornerTable_get(heuristic_table.corners, new_state)]
    /\ pc' = "enqueued"
    /\ UNCHANGED <<overflow_checks, n, mv, t1, t2, s>>

\* solver.solver_2x2x2_with_heuristics_table(&state), the table computed
TableSolve ==
    /\ pc \in {"new", "scrambled"}
    /\ n = 2
    /\ res' = solver_2x2x2_with_heuristics_table(data, n, ComputedTables)
    /\ data2' = Solved(data, n, res')
    /\ pc' = "table_solved"
    /\ UNCHANGED <<overflow_checks, n, data, mv, t1, t2, s>>

\* solver.solve_with_idastar_3x3x3(&state) and solver.solve_with_idastar(&state)
\* on a cube of size 2 or 3, the table computed
Idastar ==
    /\ pc \in {"new", "scrambled"}
    /\ n \in {2, 3}
    /\ \E solve_smaller \in BOOLEAN :
        /\ res' = [solve_smaller |-> solve_smaller,
                   result |-> IF solve_smaller
                              THEN solve_with_idastar(data, n, ComputedTables)
                              ELSE solve_with_idastar_3x3x3(data, n, ComputedTables)]
        /\ data2' = Solved(data, n, res'.result)
    /\ pc' = "idastar"
    /\ UNCHANGED <<overflow_checks, n, data, mv, t1, t2, s>>

\* solver.solve_with_idastar(&state), solver.solve_with_idastar_3x3x3(&state)
\* and solver.solver_2x2x2_with_heuristics_table(&state) on a solver built
\* without the table, and the last one on a solver with it too
TableSolvers ==
    /\ pc \in {"new", "scrambled"}
    /\ res' = [idastar |-> solve_with_idastar(data, n, NoTables),
               idastar_3x3x3 |-> solve_with_idastar_3x3x3(data, n, NoTables),
               table_solver |-> solver_2x2x2_with_heuristics_table(data, n, NoTables),
               table_solver_with_table |->
                   solver_2x2x2_with_heuristics_table(data, n, ComputedTables)]
    /\ pc' = "table_solvers"
    /\ UNCHANGED <<overflow_checks, n, data, data2, mv, t1, t2, s>>

\* TRUE iff some Move of exactly j turns of all_turns takes d to a solved cube
RECURSIVE SolvableIn(_, _, _)
SolvableIn(d, nn, j) ==
    IF j = 0 THEN is_solved(d, nn)
    ELSE \E t \in all_turns(nn) : SolvableIn(turn_of_all_turns(d, nn, t), nn, j - 1)

\* TRUE iff some Move of at most k turns of all_turns takes d to a solved cube
SolvableWithin(d, nn, k) ==
    \E j \in 0..k : SolvableIn(d, nn, j)

\* the least number of turns, at most k, of a Move that solves d
ShortestWithin(d, nn, k) ==
    CHOOSE j \in 0..k : SolvableIn(d, nn, j) /\ ~\E i \in 0..(j - 1) : SolvableIn(d, nn, i)

\* TRUE iff some Move of exactly j turns solves d when done after m, each
\* turn of it accepted by is_next_turn_efficient on the turns before it: the
\* Moves the searches make (solve_dpll lines 565-573)
RECURSIVE EfficientlySolvableIn(_, _, _, _)
EfficientlySolvableIn(d, nn, m, j) ==
    IF j = 0 THEN is_solved(d, nn)
    ELSE \E t \in all_turns(nn) :
            /\ is_next_turn_efficient(m, t)
            /\ EfficientlySolvableIn(turn_of_all_turns(d, nn, t), nn, Append(m, t), j - 1)

\* TRUE iff some Move of exactly j turns solves d when done after m and has a
\* turn that is_next_turn_efficient rejects (rejected: one was seen in m)
RECURSIVE RejectedSolvableIn(_, _, _, _, _)
RejectedSolvableIn(d, nn, m, j, rejected) ==
    IF j = 0 THEN rejected /\ is_solved(d, nn)
    ELSE \E t \in all_turns(nn) :
            RejectedSolvableIn(turn_of_all_turns(d, nn, t), nn, Append(m, t), j - 1,
                               rejected \/ ~is_next_turn_efficient(m, t))

\* the shortest Moves that solve d: their length, whether one of them passes
\* is_next_turn_efficient at every turn and whether one of them does not
EfficientSolutionsOf(d, nn, shortest) ==
    [shortest |-> shortest,
     efficient |-> EfficientlySolvableIn(d, nn, <<>>, shortest),
     rejected |-> RejectedSolvableIn(d, nn, <<>>, shortest, FALSE)]

\* The filter `.filter(|t| mut_move.is_next_turn_efficient(*t))` of the
\* searches applied to the shortest solutions of the scrambled cube.
EfficientSolutions ==
    /\ pc \in {"new", "scrambled"}
    /\ res' = EfficientSolutionsOf(data, n, ShortestWithin(data, n, Len(mv)))
    /\ pc' = "efficient"
    /\ UNCHANGED <<overflow_checks, n, data, data2, mv, t1, t2, s>>

NextSolver ==
    \/ EfficientSolutions
    \/ SolverScramble
    \/ Lookup
    \/ LookupCorners
    \/ Dpll
    \/ DpllTableEntry
    \/ TableEnqueue
    \/ TableSolve
    \/ Idastar
    \/ TableSolvers

SpecSolver == InitSolver /\ [][NextSolver]_vars

\* C15: for a 2x2x2 cube reached from the solved one by turns of all_turns,
\* the lookup of the normalised cube in the corner table hits, the value lies
\* in 0..14 and it is the least number of turns of a Move that solves the cube.
C15_TableIsDistance ==
    pc = "looked_up" =>
        /\ res.outcome = "Some"
        /\ res.v \in 0..CornerTableDepth
        /\ SolvableIn(data, 2, res.v)
        /\ res.v > 0 => ~SolvableWithin(data, 2, res.v - 1)

C15_Witness ==
    /\ pc = "looked_up"
    /\ res.outcome = "Some"
    /\ res.v = 2
    /\ ~Oriented(data)

\* C16: for a state S the corner table holds with value d, solve_dpll(S, d)
\* returns Ok with a Move of at most d turns that solves S, and for d >= 1
\* solve_dpll(S, d - 1) returns Err(Unsolveable).
C16_TableDepthAgreesWithDpll ==
    pc = "entry" =>
        /\ res.result.outcome = "Ok"
        /\ Len(res.result.move) <= res.d
        /\ is_solved(data2, 2)
        /\ res.d >= 1 => res.below = Unsolveable

C16_Witness ==
    /\ pc = "entry"
    /\ res.d >= 3
    /\ res.result.outcome = "Ok"
    /\ Len(res.result.move) = res.d
    /\ res.below = Unsolveable

\* C17: if solve_dpll(S, k) returns Ok(M) then M has at most k turns and S
\* after M is solved; a solved S gives Ok(empty Move) for every k, 0 included;
\* an unsolved S with k = 0 gives Err(Unsolveable).
C17_DpllSound ==
    pc = "dpll" =>
        /\ res.result.outcome = "Ok" =>
            /\ Len(res.result.move) <= res.k
            /\ is_solved(data2, n)
        /\ is_solved(data, n) => res.result = [outcome |-> "Ok", move |-> <<>>]
        /\ (~is_solved(data, n) /\ res.k = 0) => res.result = Unsolveable

C17_Witness ==
    /\ pc = "dpll"
    /\ n = 3
    /\ ~is_solved(data, n)
    /\ res.has_table
    /\ res.result.outcome = "Ok"
    /\ Len(res.result.move) = 2
    /\ is_solved(data2, n)

C17_WitnessZero ==
    /\ pc = "dpll"
    /\ res.k = 0
    /\ is_solved(data, n)
    /\ res.result = [outcome |-> "Ok", move |-> <<>>]

\* C18: if some Move of at most k turns solves S then solve_dpll(S, k) returns
\* Ok, with or without the table; it returns Err(Unsolveable) only when no
\* Move of at most k turns solves S.
C18_DpllComplete ==
    pc = "dpll" =>
        /\ SolvableWithin(data, n, res.k) => res.result.outcome = "Ok"
        /\ res.result = Unsolveable => ~SolvableWithin(data, n, res.k)
        /\ res.result.outcome \in {"Ok", "Err"}

C18_Witness ==
    /\ pc = "dpll"
    /\ n > 3
    /\ res.k = 2
    /\ ~SolvableWithin(data, n, 1)
    /\ res.result.outcome = "Ok"

C18_WitnessUnsolveable ==
    /\ pc = "dpll"
    /\ res.has_table
    /\ n = 3
    /\ res.k = 1
    /\ res.result = Unsolveable

\* C19: with the table computed, solver_2x2x2_with_heuristics_table(S) returns
\* Ok(M); M has at most 14 turns, as many as the table value of the normalised
\* S; S after M is solved; no shorter Move solves S.  (Ok excludes the todo!()
\* branch.)
C19_TableSolverShortest ==
    pc = "table_solved" =>
        /\ res.outcome = "Ok"
        /\ Len(res.move) <= CornerTableDepth
        /\ calc_corner_heuristics(data, 2, ComputedTables)
               = [outcome |-> "Some", v |-> Len(res.move)]
        /\ is_solved(data2, 2)
        /\ Len(res.move) > 0 => ~SolvableWithin(data, 2, Len(res.move) - 1)

C19_Witness ==
    /\ pc = "table_solved"
    /\ res.outcome = "Ok"
    /\ Len(res.move) = 2
    /\ ~Oriented(data)
    /\ is_solved(data2, 2)

\* C20: with the table computed, for a cube of size 2 or 3 reached from the
\* solved one, solve_with_idastar_3x3x3(S) and solve_with_idastar(S) return
\* Ok(M) where S after M is solved and no Move of fewer turns solves S.
C20_IdastarShortest ==
    pc = "idastar" =>
        /\ res.result.outcome = "Ok"
        /\ is_solved(data2, n)
        /\ Len(res.result.move) > 0 => ~SolvableWithin(data, n, Len(res.result.move) - 1)

C20_Witness ==
    /\ pc = "idastar"
    /\ n = 3
    /\ ~res.solve_smaller
    /\ res.result.outcome = "Ok"
    /\ Len(res.result.move) = 2
    /\ is_solved(data2, n)

C20_WitnessSmaller ==
    /\ pc = "idastar"
    /\ res.solve_smaller
    /\ res.result.outcome = "Ok"
    /\ Len(res.result.move) = 2

\* C21: on a solver without the table solve_with_idastar and
\* solve_with_idastar_3x3x3 return Err(NoHeuristicsTable) for every state, and
\* solver_2x2x2_with_heuristics_table does for every state of size 2; the
\* latter returns Err(BadInput) for every state of another size, with the
\* table or without; solve_dpll returns no error but Err(Unsolveable).
C21_FailureKinds ==
    /\ pc = "table_solvers" =>
        /\ res.idastar = NoHeuristicsTable
        /\ res.idastar_3x3x3 = NoHeuristicsTable
        /\ n = 2 => res.table_solver = NoHeuristicsTable
        /\ n # 2 => /\ res.table_solver = [outcome |-> "Err", kind |-> "BadInput"]
                    /\ res.table_solver_with_table = [outcome |-> "Err", kind |-> "BadInput"]
    /\ pc = "dpll" => res.result.outcome = "Ok" \/ res.result = Unsolveable
    /\ pc = "entry" =>
        /\ res.result.outcome = "Ok" \/ res.result = Unsolveable
        /\ res.d >= 1 => res.below.outcome = "Ok" \/ res.below = Unsolveable

C21_Witness ==
    /\ pc = "table_solvers"
    /\ n = 3
    /\ Len(mv) = 2
    /\ ~is_solved(data, n)
    /\ res.idastar = NoHeuristicsTable
    /\ res.table_solver = [outcome |-> "Err", kind |-> "BadInput"]

C21_WitnessSolved ==
    /\ pc = "table_solvers"
    /\ n = 2
    /\ is_solved(data, n)
    /\ res.idastar_3x3x3 = NoHeuristicsTable
    /\ res.table_solver = NoHeuristicsTable

----------------------------------------------------------------------------
(* SpecMove: Moves and turns handed to a cube.  The driver holds a cube of  *)
(* InitCube, builds Moves of turns of all_turns for its size, and hands    *)
(* the cube turns built for any size.                                      *)

\* the product that keeps the right-hand side only
Move_mul_rhs_only(a, b) == b

\* impl ops::Mul for Move: self.append(&mut rhs); self
Move_mul(a, b) == a \o b

\* impl PartialEq for Move, a == b: "true", "false", or "panic" when
\* other.turns[i] is out of bounds; the loop runs over self.turns only
RECURSIVE Move_eq(_, _)
Move_eq(a, b) ==
    IF a = <<>> THEN "true"
    ELSE IF b = <<>> THEN "panic"
    ELSE IF ~Turn_eq(Head(a), Head(b)) THEN "false"
    ELSE Move_eq(Tail(a), Tail(b))

\* Move::empty() * m and m * Move::empty(), each compared with m and handed
\* to do_move on a clone of the cube; the cube itself takes the turns of m
\* one by one
MulEmpty ==
    /\ pc = "start"
    /\ pc' = "multiplied"
    /\ \E m \in Moves(n, MaxMoveLen) :
          /\ mv' = m
          /\ res' = [left |-> Move_mul(<<>>, m),
                     right |-> Move_mul(m, <<>>),
                     eq |-> <<Move_eq(m, Move_mul(<<>>, m)), Move_eq(Move_mul(<<>>, m), m),
                              Move_eq(m, Move_mul(m, <<>>)), Move_eq(Move_mul(m, <<>>), m)>>,
                     after_left |-> do_move(data, n, Move_mul(<<>>, m))]
          /\ data' = do_move(data, n, m)
          /\ data2' = do_move(data2, n, Move_mul(m, <<>>))
    /\ UNCHANGED <<overflow_checks, n, t1, t2, s>>

\* the resize about the centre that refuses the outermost index
Turn_change_cube_size_hold_center_inner(t, new_cube_size) ==
    LET a == into_axis_based(t)
    IN  IF Abs(a.index) >= new_cube_size \div 2
        THEN [outcome |-> "Err"]
        ELSE [outcome |-> "Ok",
              turn |-> AxisBased(a.axis, a.pos_rot, a.index, new_cube_size)]

\* Turn::change_cube_size_hold_center: Err(()) or Ok(the turn, index kept)
Turn_change_cube_size_hold_center(t, new_cube_size) ==
    LET a == into_axis_based(t)
    IN  IF Abs(a.index) > new_cube_size \div 2
        THEN [outcome |-> "Err"]
        ELSE [outcome |-> "Ok",
              turn |-> AxisBased(a.axis, a.pos_rot, a.index, new_cube_size)]

\* Move::change_cube_size_hold_center: the turns that are Ok, unwrapped, in order
RECURSIVE Move_change_cube_size_hold_center(_, _)
Move_change_cube_size_hold_center(m, new_cube_size) ==
    IF m = <<>> THEN <<>>
    ELSE LET r == Turn_change_cube_size_hold_center(Head(m), new_cube_size)
             rest == Move_change_cube_size_hold_center(Tail(m), new_cube_size)
         IN  IF r.outcome = "Ok" THEN <<r.turn>> \o rest ELSE rest

\* A Move of the cube's size, its turns face based (as rnd_move builds them)
\* or axis based, resized to new_cube_size both ways, turn by turn and as a
\* Move.
ChangeSize ==
    /\ pc = "start"
    /\ data = std_solved_nxnxn(n)
    /\ pc' = "resized"
    /\ \E m \in Moves(n, MaxMoveLen), new_cube_size \in 2..ChangeSizeTestMaxN,
          axis_based \in BOOLEAN :
          /\ mv' = IF axis_based THEN [i \in 1..Len(m) |-> into_axis_based(m[i])] ELSE m
          /\ res' = [new_cube_size |-> new_cube_size,
                     turns_face |-> [i \in 1..Len(m) |->
                         Turn_change_cube_size_hold_face(mv'[i], new_cube_size)],
                     turns_center |-> [i \in 1..Len(m) |->
                         Turn_change_cube_size_hold_center(mv'[i], new_cube_size)],
                     hold_face |-> Move_change_cube_size_hold_face(mv', new_cube_size),
                     hold_center |-> Move_change_cube_size_hold_center(mv', new_cube_size)]
    /\ UNCHANGED <<overflow_checks, n, data, data2, t1, t2, s>>

\* m.is_next_turn_efficient(t) for a Move m and a turn t of the cube's size,
\* each face based or axis based
NextTurnEfficient ==
    /\ pc = "start"
    /\ data = std_solved_nxnxn(n)
    /\ pc' = "asked"
    /\ \E m \in Moves(n, MaxMoveLen), t \in BothForms(n), axis_based \in BOOLEAN :
          /\ mv' = IF axis_based THEN [i \in 1..Len(m) |-> into_axis_based(m[i])] ELSE m
          /\ t1' = t
          /\ res' = is_next_turn_efficient(mv', t)
    /\ UNCHANGED <<overflow_checks, n, data, data2, t2, s>>

\* state.all_turns()
AllTurns ==
    /\ pc = "start"
    /\ pc' = "listed"
    /\ res' = all_turns_vec(n)
    /\ UNCHANGED <<overflow_checks, n, data, data2, mv, t1, t2, s>>

\* state.turn(t) for a Turn value t built for a cube of any size 2..MaxTurnN;
\* into_face_based and the two assertions come before the first write to
\* self.data, so a panic leaves the data as it was.  data2 is the clone that
\* is not turned.
TurnAnySize ==
    /\ pc = "start"
    /\ pc' = "turned_any"
    /\ \E m \in 2..MaxTurnN : \E t \in TurnInputs(m) :
          /\ t1' = t
          /\ IF turn_panics(n, t, overflow_checks)
             THEN res' = Panic /\ data' = data
             ELSE res' = [outcome |-> "ok"] /\ data' = turn(data, n, t)
    /\ UNCHANGED <<overflow_checks, n, data2, mv, t2, s>>

\* state.turn(t) for a valid turn t of a cube of size m, on the cube (when it
\* has that size) and on the positions themselves: res.positions[p] is the
\* position whose facelet the turn brings to p; data2 keeps the state before
TurnFrame ==
    /\ pc = "start"
    /\ pc' = "framed"
    /\ \E m \in 2..MaxTurnN : \E t \in all_turns(m) :
          /\ t1' = t
          /\ res' = [n |-> m, positions |-> turn(Positions(m), m, t)]
          /\ data' = IF m = n THEN turn(data, n, t) ELSE data
    /\ data2' = data
    /\ UNCHANGED <<overflow_checks, n, mv, t2, s>>

\* a == b and b == a for two Moves of the cube's turns
CompareMoves ==
    /\ pc = "start"
    /\ n = 2
    /\ data = std_solved_nxnxn(n)
    /\ pc' = "compared_moves"
    /\ \E a \in Moves(n, MaxMoveLen), b \in Moves(n, MaxMoveLen) :
          /\ mv' = a
          /\ res' = [other |-> b, eq |-> Move_eq(a, b), eq_back |-> Move_eq(b, a)]
    /\ UNCHANGED <<overflow_checks, n, data, data2, t1, t2, s>>

NextMove ==
    \/ MulEmpty
    \/ ChangeSize
    \/ NextTurnEfficient
    \/ AllTurns
    \/ TurnAnySize
    \/ TurnFrame
    \/ CompareMoves

SpecMove == InitCube /\ [][NextMove]_vars

\* C22: for every Move M, Move::empty() * M and M * Move::empty() have the
\* turns of M, compare equal to M (either way round), and do_move of either
\* gives the state the turns of M give one by one.
C22_EmptyIsIdentity ==
    pc = "multiplied" =>
        /\ res.left = mv
        /\ res.right = mv
        /\ \A i \in 1..4 : res.eq[i] = "true"
        /\ res.after_left = data
        /\ data2 = data

C22_Witness ==
    /\ pc = "multiplied"
    /\ Len(mv) = 2
    /\ mv[1] # mv[2]
    /\ n = 3
    /\ res.right = mv
    /\ data2 = data
    /\ data # std_solved_nxnxn(n)

\* the Ok values of a sequence of Results, unwrapped, in order
OkTurns(rs) ==
    LET oks == SelectSeq(rs, LAMBDA r : r.outcome = "Ok")
    IN  [i \in 1..Len(oks) |-> oks[i].turn]

C23_WitnessLarger ==
    /\ pc = "resized"
    /\ n = 2
    /\ res.new_cube_size = 5
    /\ Len(res.hold_center) = 2
    /\ mv[1].kind = "FaceBased"

\* a and b are the same turn: one axis, sense, index and cube size
SameTurn(a, b) == into_axis_based(a) = into_axis_based(b)

\* C24: is_next_turn_efficient(M, t) is false exactly when M is not empty and
\* (a) t is the inverse of M's last turn, or (b) M has two turns or more and t
\* equals both of the last two, or (c) t is on the axis of M's last turn with
\* an index strictly greater than that turn's; it is true otherwise, for the
\* empty Move too.
C24_EfficientRule ==
    pc = "asked" =>
        (res = FALSE <=>
            /\ mv # <<>>
            /\ \/ SameTurn(t1, Turn_invert(mv[Len(mv)]))
               \/ /\ Len(mv) >= 2
                  /\ SameTurn(t1, mv[Len(mv)])
                  /\ SameTurn(t1, mv[Len(mv) - 1])
               \/ /\ into_axis_based(t1).axis = into_axis_based(mv[Len(mv)]).axis
                  /\ into_axis_based(t1).index > into_axis_based(mv[Len(mv)]).index)

\* three equal turns in a row
C24_Witness ==
    /\ pc = "asked"
    /\ Len(mv) = 2
    /\ SameTurn(t1, mv[2])
    /\ SameTurn(t1, mv[1])
    /\ t1.kind # mv[2].kind
    /\ res = FALSE

\* a commuting turn in the accepted order
C24_WitnessCommuting ==
    /\ pc = "asked"
    /\ n = 4
    /\ Len(mv) = 1
    /\ into_axis_based(t1).axis = into_axis_based(mv[1]).axis
    /\ into_axis_based(t1).index < into_axis_based(mv[1]).index
    /\ res = TRUE

C24_WitnessEmpty ==
    /\ pc = "asked"
    /\ mv = <<>>
    /\ res = TRUE

\* C25: all_turns() on a state of size n returns 12 * (n/2) turns (integer
\* division), no two of them the same, each with cube_size n and layers-in
\* < n/2, and every face-based turn of 6 faces, 2 invert flags and n/2 layers
\* is in the list.
C25_AllTurns ==
    pc = "listed" =>
        /\ Len(res) = 12 * (n \div 2)
        /\ \A i, j \in 1..Len(res) : i # j => res[i] # res[j] /\ ~SameTurn(res[i], res[j])
        /\ \A i \in 1..Len(res) :
               /\ res[i].kind = "FaceBased"
               /\ res[i].cube_size = n
               /\ res[i].num_in < n \div 2
               /\ ~turn_panics(n, res[i], overflow_checks)
        /\ \A f \in Faces, inv \in BOOLEAN, l \in 0..(n \div 2 - 1) :
               \E i \in 1..Len(res) : res[i] = FaceBased(f, inv, l, n)
        /\ {res[i] : i \in 1..Len(res)} = all_turns(n)

C25_Witness ==
    /\ pc = "listed"
    /\ n = 4
    /\ Len(res) = 24
    /\ res[3] = FaceBased("Up", TRUE, 1, 4)

C25_WitnessOdd ==
    /\ pc = "listed"
    /\ n = 3
    /\ Len(res) = 12
    /\ res[12] = FaceBased("Down", FALSE, 0, 3)

\* C26: turn(t) on a state of size n with a turn whose cube_size is not n, or
\* whose layers-in is n/2 or more, panics and the facelets are as they were;
\* a turn that does not panic has the state's size and is applied.
C26_MismatchIsFatal ==
    pc = "turned_any" =>
        /\ (into_face_based(t1).cube_size # n \/ into_face_based(t1).num_in >= n \div 2) =>
               /\ res = Panic
               /\ data = data2
        /\ res # Panic =>
               /\ t1.cube_size = n
               /\ data = turn(data2, n, t1)

\* a turn that is legal for its own, larger cube
C26_Witness ==
    /\ pc = "turned_any"
    /\ n = 4
    /\ t1 = FaceBased("Front", FALSE, 0, 5)
    /\ data2 # std_solved_nxnxn(n)
    /\ res = Panic
    /\ data = data2

\* a turn of the state's size that is too many layers in
C26_WitnessLayers ==
    /\ pc = "turned_any"
    /\ n = 3
    /\ t1.kind = "AxisBased"
    /\ t1.cube_size = 3
    /\ t1.index = 0
    /\ res = Panic
    /\ data = data2

----------------------------------------------------------------------------
(* SpecSteps: solve_dpll and the IDA* solvers, one loop iteration per      *)
(* step, on a solver with the table.  The cube (data) is scrambled from    *)
(* the solved one; res holds the locals of the running solver.             *)

\* scramble turns are drawn from the first MaxStepTurns entries of all_turns()
MaxStepTurns == 8
\* largest k handed to solve_dpll
MaxStepK == 3

None == [outcome |-> "None"]

\* state.turn(t) of a scramble.  The solvers look up cubes up to one turn
\* further from the solved corners than the scramble is long: the scramble
\* goes on while the table the model builds holds them all.
StepScramble ==
    /\ pc \in {"new", "scrambled"}
    /\ n = 3
    /\ \E j \in 1..MaxStepTurns :
        /\ j <= Len(all_turns_vec(n))
        /\ data' = turn_of_all_turns(data, n, all_turns_vec(n)[j])
        /\ mv' = Append(mv, all_turns_vec(n)[j])
    /\ calc_corner_heuristics(data', n, ComputedTables).outcome = "Some"
    /\ calc_corner_heuristics(data', n, ComputedTables).v + Len(mv') + 1 <= ModelTableDepth
    /\ data2' = data'
    /\ pc' = "scrambled"
    /\ UNCHANGED <<overflow_checks, n, t1, t2, s, res>>

\* solve_dpll(&state, k) up to its while loop: Ok(empty) for a solved cube,
\* Err(Unsolveable) for k <= 0, else state_history[0] and the (1, turn)
\* entries of possible_turns
DpllStart ==
    /\ pc \in {"new", "scrambled"}
    /\ n = 3
    /\ Len(mv) <= MaxSolveScramble
    /\ \E k \in 0..MaxStepK :
        /\ k <= Len(mv) + 1
        /\ IF is_solved(data, n)
           THEN /\ res' = [k |-> k, result |-> [outcome |-> "Ok", move |-> <<>>]]
                /\ pc' = "dpll_returned"
           ELSE IF k <= 0
           THEN /\ res' = [k |-> k, result |-> Unsolveable]
                /\ pc' = "dpll_returned"
           ELSE /\ res' = [k |-> k,
                           state_history |->
                               [i \in 0..k |-> IF i = 0
                                               THEN [outcome |-> "Some", move |-> <<>>,
                                                     state |-> data]
                                               ELSE None],
                           possible_turns |->
                               [j \in 1..Len(all_turns_vec(n)) |->
                                   [i |-> 1, turn |-> all_turns_vec(n)[j], by |-> <<>>]],
                           popped |-> None]
                /\ pc' = "dpll_loop"
    /\ UNCHANGED <<overflow_checks, n, data, data2, mv, t1, t2, s>>

\* state_history[i] = Some((mut_move, mut_state))
\* the node stored one level too low, over the node it was made from
DpllHistory_over_parent(state_history, i, mut_move, mut_state) ==
    [state_history EXCEPT ![i - 1] =
        [outcome |-> "Some", move |-> mut_move, state |-> mut_state]]

DpllHistory(state_history, i, mut_move, mut_state) ==
    [state_history EXCEPT ![i] =
        [outcome |-> "Some", move |-> mut_move, state |-> mut_state]]

\* One `while let Some((i, rubiks_turn)) = possible_turns.pop()` of
\* solve_dpll, or the return after the loop.  popped records the node made:
\* its level, the corner heuristic if it was asked for, and how many entries
\* were pushed for it; an entry of possible_turns records in `by` the Move
\* of the node whose expansion pushed it.
DpllStep ==
    /\ pc = "dpll_loop"
    /\ IF res.possible_turns = <<>>
       THEN /\ res' = [k |-> res.k, result |-> Unsolveable]
            /\ pc' = "dpll_returned"
       ELSE LET top == res.possible_turns[Len(res.possible_turns)]
                rest == SubSeq(res.possible_turns, 1, Len(res.possible_turns) - 1)
                mut_move == Append(res.state_history[top.i - 1].move, top.turn)
                mut_state == turn_of_all_turns(res.state_history[top.i - 1].state, n, top.turn)
                h == IF top.i < res.k /\ n > 2 /\ res.k - top.i < CornerTableDepth
                     THEN calc_corner_heuristics(mut_state, n, ComputedTables)
                     ELSE None
                turns == IF top.i >= res.k \/ (h.outcome = "Some" /\ h.v > res.k - 1)
                         THEN <<>>
                         ELSE DpllPushed(mut_move, n)
            IN  IF is_solved(mut_state, n)
                THEN /\ res' = [k |-> res.k, result |-> [outcome |-> "Ok", move |-> mut_move]]
                     /\ pc' = "dpll_returned"
                ELSE /\ res' = [k |-> res.k,
                                state_history |->
                                    DpllHistory(res.state_history, top.i, mut_move, mut_state),
                                possible_turns |->
                                    rest \o [j \in 1..Len(turns) |->
                                                [i |-> top.i + 1, turn |-> turns[j],
                                                 by |-> mut_move]],
                                popped |-> [outcome |-> "Some", i |-> top.i, h |-> h,
                                            pushed |-> Len(turns)]]
                     /\ pc' = "dpll_loop"
    /\ UNCHANGED <<overflow_checks, n, data, data2, mv, t1, t2, s>>

\* Most turns of a scramble handed to the steps of the IDA* search
MaxIdaScramble == 3

\* the f = g + h of the children the for loop of the IDA* search makes of a
\* popped node: one per efficient turn
ChildFs(rubiks_move, curr_state, nn, solve_smaller) ==
    {Len(rubiks_move) + 1
        + calc_heuristics(turn_of_all_turns(curr_state, nn, t), nn, solve_smaller, None,
                          ComputedTables).v :
        t \in {u \in all_turns(nn) : is_next_turn_efficient(rubiks_move, u)}}

\* solve_with_idastar(&state) and solve_with_idastar_3x3x3(&state) up to the
\* first `while let`: start_h, the bound, and the root pushed in the first
\* pass of the loop.  rejected, popped and last_pass record what the search
\* did: the f of the children beyond the bound in this pass, the f of the
\* entry popped last with the f of all entries then on the stack, and the
\* pass that ended last.
IdaStart ==
    /\ pc \in {"new", "scrambled"}
    /\ n = 3
    /\ \E solve_smaller \in BOOLEAN :
        LET start_h == calc_heuristics(data, n, solve_smaller, None, ComputedTables)
        IN  /\ Len(mv) <= (IF solve_smaller THEN MaxSolveScramble ELSE MaxIdaScramble)
            /\ IF start_h.outcome # "Some"
               THEN /\ res' = [solve_smaller |-> solve_smaller,
                               result |-> IF start_h.outcome = "panic" THEN start_h
                                          ELSE NoHeuristicsTable,
                               last_pass |-> None]
                    /\ pc' = "ida_returned"
               ELSE /\ res' = [solve_smaller |-> solve_smaller,
                               start_h |-> start_h.v,
                               bound |-> start_h.v,
                               stack |-> <<[move |-> <<>>, state |-> data, f |-> start_h.v]>>,
                               min_turns |-> None,
                               rejected |-> {},
                               popped |-> None,
                               last_pass |-> None]
                    /\ pc' = "ida_loop"
    /\ UNCHANGED <<overflow_checks, n, data, data2, mv, t1, t2, s>>

\* One `while let Some(..) = {state_stack.sort_by_key(|a| a.2);
\* state_stack.pop()}` of the IDA* search with an entry on the stack: the
\* stack is sorted, its last entry popped, and either Ok is returned or the
\* children of the entry are pushed or lower min_turns.
IdaStep ==
    /\ pc = "ida_loop"
    /\ res.stack # <<>>
    /\ LET sorted == SortByF(res.stack)
           top == sorted[Len(sorted)]
           popped == [outcome |-> "Some", f |-> top.f, g |-> Len(top.move),
                      on_stack |-> {sorted[j].f : j \in 1..Len(sorted)}]
           grown == IdaChildren(top.move, top.state, 1, SubSeq(sorted, 1, Len(sorted) - 1),
                                res.min_turns, res.bound, n, res.solve_smaller,
                                ComputedTables)
       IN  IF is_solved(top.state, n)
           THEN /\ res' = [solve_smaller |-> res.solve_smaller,
                           result |-> [outcome |-> "Ok", move |-> top.move],
                           bound |-> res.bound,
                           popped |-> popped,
                           last_pass |-> res.last_pass]
                /\ data2' = Solved(data, n, res'.result)
                /\ pc' = "ida_returned"
           ELSE IF grown.outcome # "Ok"
           THEN /\ res' = [solve_smaller |-> res.solve_smaller,
                           result |-> grown,
                           bound |-> res.bound,
                           popped |-> popped,
                           last_pass |-> res.last_pass]
                /\ data2' = data2
                /\ pc' = "ida_returned"
           ELSE /\ res' = [res EXCEPT !.stack = grown.stack,
                                      !.min_turns = grown.min_turns,
                                      !.rejected = res.rejected \cup
                                          {f \in ChildFs(top.move, top.state, n,
                                                         res.solve_smaller) : f > res.bound},
                                      !.popped = popped]
                /\ data2' = data2
                /\ pc' = "ida_loop"
    /\ UNCHANGED <<overflow_checks, n, data, mv, t1, t2, s>>

\* the end of a pass that gives up whatever the pass rejected
IdaPass_gives_up ==
    /\ pc = "ida_loop"
    /\ res.stack = <<>>
    /\ res' = [solve_smaller |-> res.solve_smaller,
               result |-> Unsolveable,
               bound |-> res.bound,
               popped |-> None,
               last_pass |-> [outcome |-> "Some", bound |-> res.bound,
                              rejected |-> res.rejected, next |-> res.bound]]
    /\ pc' = "ida_returned"
    /\ UNCHANGED <<overflow_checks, n, data, data2, mv, t1, t2, s>>

\* The end of a pass of the IDA* search: the pop of the empty stack ends the
\* `while let`; with min_turns = Some(v) the bound becomes v and the next
\* pass starts with min_turns = None and the root pushed, else
\* Err(Unsolveable) is returned.
IdaPass ==
    /\ pc = "ida_loop"
    /\ res.stack = <<>>
    /\ IF res.min_turns.outcome = "Some"
       THEN /\ res' = [res EXCEPT !.bound = res.min_turns.v,
                                  !.stack = <<[move |-> <<>>, state |-> data,
                                               f |-> res.start_h]>>,
                                  !.min_turns = None,
                                  !.rejected = {},
                                  !.popped = None,
                                  !.last_pass = [outcome |-> "Some", bound |-> res.bound,
                                                 rejected |-> res.rejected,
                                                 next |-> res.min_turns.v]]
            /\ pc' = "ida_loop"
       ELSE /\ res' = [solve_smaller |-> res.solve_smaller,
                       result |-> Unsolveable,
                       bound |-> res.bound,
                       popped |-> None,
                       last_pass |-> [outcome |-> "Some", bound |-> res.bound,
                                      rejected |-> res.rejected, next |-> res.bound]]
            /\ pc' = "ida_returned"
    /\ UNCHANGED <<overflow_checks, n, data, data2, mv, t1, t2, s>>

NextSteps ==
    \/ StepScramble
    \/ DpllStart
    \/ DpllStep
    \/ IdaStart
    \/ IdaStep
    \/ IdaPass

SpecSteps == InitSolver /\ [][NextSteps]_vars

\* The program runs the loop it has entered: a step of the IDA* search that
\* can be taken is taken.  Weak fairness of IdaPass and of IdaStep, the
\* latter written by the definition of WF with ENABLED <<IdaStep>>_vars as
\* what it is in this specification, the guard of IdaStep (a pop changes the
\* stack).
FairSpecSteps ==
    /\ SpecSteps
    /\ WF_vars(IdaPass)
    /\ ([]<>~(pc = "ida_loop" /\ res.stack # <<>>) \/ []<><<IdaStep>>_vars)

\* the steps of solve_dpll end with what solve_dpll returns
StepsAgreeDpll ==
    pc = "dpll_returned" => res.result = solve_dpll(data, n, res.k, ComputedTables)

\* C27: in solve_dpll on a cube of size > 2 with the table, a node made at
\* level i, 1 <= i < k and k - i < 14, whose corner heuristic is greater than
\* the remaining budget k - i is not expanded: no entry is pushed for it.
C27_PruneByRemainingBudget ==
    (/\ pc = "dpll_loop"
     /\ res.popped.outcome = "Some"
     /\ n > 2
     /\ 1 <= res.popped.i
     /\ res.popped.i < res.k
     /\ res.k - res.popped.i < CornerTableDepth
     /\ res.popped.h.outcome = "Some"
     /\ res.popped.h.v > res.k - res.popped.i)
        => res.popped.pushed = 0

\* what the code does: the heuristic is compared with k - 1 at every level
DpllPrunesAgainstKMinusOne ==
    (/\ pc = "dpll_loop"
     /\ res.popped.outcome = "Some"
     /\ res.popped.h.outcome = "Some")
        => (res.popped.pushed = 0 <=> res.popped.h.v > res.k - 1)

\* the steps of the IDA* search end with what the search returns
StepsAgreeIda ==
    pc = "ida_returned" =>
        res.result = IF res.solve_smaller THEN solve_with_idastar(data, n, ComputedTables)
                     ELSE solve_with_idastar_3x3x3(data, n, ComputedTables)

\* C28: in the IDA* searches (solve_with_idastar and
\* solve_with_idastar_3x3x3) every entry popped from state_stack has the
\* smallest f = g + h of all entries on the stack at that moment.
C28_PopsSmallestF ==
    (pc \in {"ida_loop", "ida_returned"} /\ res.popped.outcome = "Some")
        => \A f \in res.popped.on_stack : res.popped.f <= f

\* what the code does: the stack is sorted ascending and its last entry is
\* popped, so the entry popped has the greatest f on the stack
IdaPopsGreatestF ==
    (pc \in {"ida_loop", "ida_returned"} /\ res.popped.outcome = "Some")
        => \A f \in res.popped.on_stack : res.popped.f >= f

\* C29: in the IDA* searches no entry with f greater than the bound of the
\* pass is on state_stack (f being g + h of the entry), and after a pass that
\* ended without a solution the bound is the least f of the children the
\* pass rejected, greater than the bound of that pass and, the root being
\* reachable, not greater than the length of a shortest solution of the root.
C29_BoundProgression ==
    pc = "ida_loop" =>
        /\ \A j \in 1..Len(res.stack) :
            /\ res.stack[j].f <= res.bound
            /\ res.stack[j].f = Len(res.stack[j].move)
                                  + calc_heuristics(res.stack[j].state, n, res.solve_smaller,
                                                    None, ComputedTables).v
        /\ \A f \in res.rejected : f > res.bound
        /\ res.last_pass.outcome = "Some" =>
            /\ res.bound = res.last_pass.next
            /\ res.last_pass.next \in res.last_pass.rejected
            /\ \A f \in res.last_pass.rejected : res.last_pass.next <= f
            /\ res.last_pass.next > res.last_pass.bound
            /\ ~SolvableWithin(data, n, res.last_pass.next - 1)

C29_Witness ==
    /\ pc = "ida_loop"
    /\ ~res.solve_smaller
    /\ res.last_pass.outcome = "Some"
    /\ res.last_pass.bound = 1
    /\ res.bound = 3
    /\ Len(res.stack) > 1
    /\ {res.stack[j].f : j \in 1..Len(res.stack)} = {1, 3}

C29_WitnessSmaller ==
    /\ pc = "ida_loop"
    /\ res.solve_smaller
    /\ res.last_pass.outcome = "Some"
    /\ res.last_pass.bound = 0
    /\ res.bound = 2
    /\ res.rejected # {}

\* C30: with the corner table built, solve_with_idastar_3x3x3 on a state
\* reached from solved by valid turns eventually returns, what it returns is
\* Ok with a move that solves the state, and Err(Unsolveable) is returned
\* only after a pass that rejected no child for exceeding the bound.
C30_IdastarTerminates ==
    /\ (pc = "ida_loop" /\ ~res.solve_smaller) ~> (pc = "ida_returned")
    /\ [](pc = "ida_returned" /\ ~res.solve_smaller =>
            /\ res.result.outcome = "Ok"
            /\ is_solved(data2, n)
            /\ do_move(data, n, res.result.move) = data2)
    /\ [](pc = "ida_returned" /\ res.result = Unsolveable =>
            /\ res.last_pass.outcome = "Some"
            /\ res.last_pass.rejected = {})

C30_Witness ==
    /\ pc = "ida_returned"
    /\ ~res.solve_smaller
    /\ res.result.outcome = "Ok"
    /\ Len(res.result.move) = 3
    /\ res.last_pass.outcome = "Some"
    /\ res.last_pass.bound = 1
    /\ is_solved(data2, n)
    /\ ~is_solved(data, n)

\* C31: the filter by is_next_turn_efficient never discards every shortest
\* solution: for a cube of size 2, 3 or 4 whose shortest solving Move has d
\* turns, some solving Move of exactly d turns has each turn accepted by
\* is_next_turn_efficient on the turns before it.
C31_PruningKeepsAShortest ==
    pc = "efficient" =>
        /\ SolvableIn(data, n, res.shortest)
        /\ ~SolvableWithin(data, n, res.shortest - 1)
        /\ res.efficient

C31_Witness ==
    /\ pc = "efficient"
    /\ n = 4
    /\ res.shortest = 2
    /\ res.rejected
    /\ res.efficient

C31_WitnessOdd ==
    /\ pc = "efficient"
    /\ n = 3
    /\ res.shortest = 2
    /\ res.rejected
    /\ res.efficient

\* C32: the corner heuristic never overestimates on larger cubes: for a cube
\* of size 3 or 4 reached from the solved one by a Move of d valid turns (of
\* outer or inner layers), calc_corner_heuristics gives Some(h) with h <= d;
\* d ranging over all such Moves, h is at most the length of the shortest.
C32_CornerHeuristicAdmissible ==
    (pc = "corners_looked_up" /\ n \in {3, 4}) =>
        /\ res.outcome = "Some"
        /\ res.v <= Len(mv)
        /\ res.v > 0 => ~SolvableWithin(data, n, res.v - 1)

C32_Witness ==
    /\ pc = "corners_looked_up"
    /\ n = 4
    /\ Len(mv) = 2
    /\ mv[1].num_in = 1
    /\ mv[2].num_in = 0
    /\ res.outcome = "Some"
    /\ res.v = 1

C32_WitnessOdd ==
    /\ pc = "corners_looked_up"
    /\ n = 3
    /\ Len(mv) = 2
    /\ res.outcome = "Some"
    /\ res.v = 2

\* some whole-cube rotation of d has blue, orange and yellow at 15, 18, 23
Matchable(d) == \E q \in CubeRotations : Oriented([p \in 0..23 |-> d[q[p]]])

\* C33: when rotate_to_normal_2x2x2 is called on a 2x2x2 state none of whose
\* orientations has blue, orange and yellow at facelets 15, 18 and 23, the
\* call aborts with a fatal error instead of returning normally.
C33_UnmatchedIsFatal ==
    (pc = "normalized_any" /\ ~Matchable(res.input)) => res.returned = "panic"

\* what the code does: the loops run out after 64 tries and the call
\* returns, the cube as it was; hash on the same state reaches
\* unimplemented!()
UnmatchedReturnsUnchanged ==
    (pc = "normalized_any" /\ ~Matchable(res.input)) =>
        /\ res.returned = "exhausted"
        /\ res.tries = 64
        /\ data = res.input
        /\ res.hash.outcome = "panic"

\* a recoloured state that still has the reference cubie is normalised
RecolouredMatchableFound ==
    (pc = "normalized_any" /\ Matchable(res.input)) =>
        /\ res.returned = "found"
        /\ Oriented(data)
        /\ res.hash.outcome = "Ok"

\* The net of the cube as fmt prints it (Up above Front; Left, Front, Right,
\* Back side by side; Down below Front): position p of a cube of size m lies
\* in the strip of layer k of `face`, the line of an adjacent face k lines
\* from the edge it shares with `face`.
InStrip(m, face, k, p) ==
    LET on  == p \div (m * m)
        row == (p % (m * m)) \div m
        col == p % m
        far == m - 1 - k
    IN  CASE face = "Up"    -> on \in {1, 2, 3, 4} /\ row = k
          [] face = "Down"  -> on \in {1, 2, 3, 4} /\ row = far
          [] face = "Front" -> \/ on = 0 /\ row = far
                               \/ on = 5 /\ row = k
                               \/ on = 1 /\ col = far
                               \/ on = 3 /\ col = k
          [] face = "Back"  -> \/ on = 0 /\ row = k
                               \/ on = 5 /\ row = far
                               \/ on = 1 /\ col = k
                               \/ on = 3 /\ col = far
          [] face = "Left"  -> \/ on \in {0, 2, 5} /\ col = k
                               \/ on = 4 /\ col = far
          [] face = "Right" -> \/ on \in {0, 2, 5} /\ col = far
                               \/ on = 4 /\ col = k

\* position p of a cube of size m lies on `face`
OnFace(m, face, p) == p \div (m * m) = FaceId(face)

OppositeFace(face) ==
    CASE face = "Up" -> "Down" [] face = "Down" -> "Up"
      [] face = "Left" -> "Right" [] face = "Right" -> "Left"
      [] face = "Front" -> "Back" [] face = "Back" -> "Front"

\* C34: for a cube of size 2..5, a valid turn of face F with k layers in
\* rearranges the facelets (none duplicated, none lost), changes only
\* positions in the layer-k strips of the four faces adjacent to F and, when
\* k = 0, in the block of F, never a position of the face opposite to F, and
\* leaves the block of F alone when k >= 1.
C34_TurnFrame ==
    pc = "framed" =>
        LET m == res.n
            q == res.positions
            all == 0..(6 * m * m - 1)
        IN  /\ DOMAIN q = all
            /\ {q[p] : p \in all} = all
            /\ (m = n => data = Permuted(data2, q))
            /\ \A p \in all :
                /\ q[p] # p => \/ InStrip(m, t1.face, t1.num_in, p)
                               \/ t1.num_in = 0 /\ OnFace(m, t1.face, p)
                /\ OnFace(m, OppositeFace(t1.face), p) => q[p] = p
                /\ (t1.num_in >= 1 /\ OnFace(m, t1.face, p)) => q[p] = p

\* an inner layer of the largest cube: 20 positions move, none of its face
C34_Witness ==
    /\ pc = "framed"
    /\ res.n = 5
    /\ t1.num_in = 1
    /\ Cardinality({p \in DOMAIN res.positions : res.positions[p] # p}) = 20

\* an outer layer turned on the cube itself
C34_WitnessOuter ==
    /\ pc = "framed"
    /\ res.n = n
    /\ n = 4
    /\ t1.num_in = 0
    /\ data # data2
    /\ Cardinality({p \in DOMAIN res.positions : res.positions[p] # p}) = 32

\* The eight corners of the 2x2x2 cube on the net that fmt prints: the three
\* positions of each, clockwise seen from outside (URF, UFL, ULB, UBR, DFR,
\* DLF, DBL, DRB).
CornerPositions ==
    <<<<3, 12, 9>>, <<2, 8, 5>>, <<0, 4, 17>>, <<1, 16, 13>>,
      <<21, 11, 14>>, <<20, 7, 10>>, <<22, 19, 6>>, <<23, 15, 18>>>>

\* the three colors d shows at a corner, clockwise
ColorsAt(d, c) == <<d[c[1]], d[c[2]], d[c[3]]>>

\* the three ways to read a cubie clockwise
Twists(x) == {x, <<x[2], x[3], x[1]>>, <<x[3], x[1], x[2]>>}

\* the cubies of the solved cube
SolvedCubies == {ColorsAt(std_solved_nxnxn(2), CornerPositions[i]) : i \in 1..8}

\* the cubies of the solved cube that d shows at the i-th corner
CubiesAt(d, i) == {x \in SolvedCubies : ColorsAt(d, CornerPositions[i]) \in Twists(x)}

\* every corner of d shows one cubie of the solved cube, clockwise, and the
\* eight corners show eight cubies
ValidCorners(d) ==
    /\ \A i \in 1..8 : Cardinality(CubiesAt(d, i)) = 1
    /\ \A i, j \in 1..8 : i # j => CubiesAt(d, i) # CubiesAt(d, j)

\* C35: in every 2x2x2 state reached from the solved cube by turns and
\* rotate_cube calls, the three facelets at each of the 8 corners show the
\* three colors of one cubie of the solved cube in its cyclic order (so never
\* two colors of opposite faces), and the 8 corners hold 8 different cubies.
C35_CornersStayValid ==
    pc \in {"scramble", "rotated"} =>
        /\ ValidCorners(data)
        /\ ValidCorners(data2)
        /\ \A i \in 1..8 :
             LET x == ColorsAt(data, CornerPositions[i])
             IN  /\ {"White", "Yellow"} \cap {x[1], x[2], x[3]} \in {{"White"}, {"Yellow"}}
                 /\ {"Green", "Blue"} \cap {x[1], x[2], x[3]} \in {{"Green"}, {"Blue"}}
                 /\ {"Red", "Orange"} \cap {x[1], x[2], x[3]} \in {{"Red"}, {"Orange"}}

\* after a turn and a rotation a corner shows a twisted cubie that is not
\* the one of the solved cube there
C35_Witness ==
    /\ pc = "rotated"
    /\ res.steps = 2
    /\ data # data2
    /\ ~is_solved(data2, 2)
    /\ data[3] \notin {"White", "Yellow"}
    /\ CubiesAt(data, 1) # {ColorsAt(std_solved_nxnxn(2), CornerPositions[1])}

\* a, by the equality of turns, is the first Len(a) turns of b
IsPrefix(a, b) ==
    /\ Len(a) <= Len(b)
    /\ \A i \in 1..Len(a) : Turn_eq(a[i], b[i])

\* C36: for all Moves A and B, A == B evaluates without failure, is true
\* iff A and B have the same number of turns and equal turns at every
\* position, and A == B iff B == A.
C36_MoveEqIsEquivalence ==
    pc = "compared_moves" =>
        /\ res.eq \in {"true", "false"}
        /\ res.eq = "true" <=> (Len(mv) = Len(res.other) /\ IsPrefix(mv, res.other))
        /\ res.eq = res.eq_back

\* what the code does: the loop runs over the turns of the left side only,
\* so a == b is true when a is the beginning of b, and indexes b out of
\* bounds (a panic) when b is the beginning of a and shorter
MoveEqComparesPrefix ==
    pc = "compared_moves" =>
        /\ res.eq = "true" <=> IsPrefix(mv, res.other)
        /\ res.eq = "panic" <=> (Len(res.other) < Len(mv) /\ IsPrefix(res.other, mv))

\* for Moves of the same length the comparison is the one the claim states
MoveEqOnEqualLengths ==
    (pc = "compared_moves" /\ Len(mv) = Len(res.other)) =>
        /\ res.eq \in {"true", "false"}
        /\ res.eq = "true" <=> IsPrefix(mv, res.other)
        /\ res.eq = res.eq_back

\* C37: on a 2x2x2 cube the six positive-index turns never change facelets
\* 15, 18 and 23, so every state calc_corner_heuristics_table enqueues or
\* inserts has Blue, Orange, Yellow at those positions (it is its own
\* reference orientation, and hash feeds it as it stands), and no two distinct
\* keys of the table differ only by a whole-cube rotation.
C37_TableKeysCanonical ==
    pc = "enqueued" =>
        /\ \A p \in {15, 18, 23} : data2[p] = data[p]
        /\ Oriented(data) /\ Oriented(data2)
        /\ res.normal.data = data2
        /\ Hash_hash(data2, 2) = [outcome |-> "Ok", fed |-> Feed(data2)]
        /\ res.value.outcome = "Some" /\ res.value.v <= res.d + 1
        /\ \A q \in CubeRotations :
              LET rotated == [p \in 0..23 |-> data2[q[p]]]
              IN  CornerTable_contains_key(rotated) => rotated = data2

C37_Witness ==
    /\ pc = "enqueued"
    /\ res.d = ModelTableDepth - 1
    /\ res.value = [outcome |-> "Some", v |-> ModelTableDepth]
    /\ data2 # data
    /\ \E q \in CubeRotations : [p \in 0..23 |-> data2[q[p]]] # data2

\* a new_state the table already holds with a smaller value
C37_WitnessKnown ==
    /\ pc = "enqueued"
    /\ res.d = 3
    /\ res.value = [outcome |-> "Some", v |-> 2]

\* the entry the next pass of the while loop of solve_dpll pops
DpllTop == res.possible_turns[Len(res.possible_turns)]

\* C38: whenever an entry (i, t) is popped from possible_turns in solve_dpll,
\* 1 <= i <= k and state_history[i - 1] holds Some((m, s)) where m has i - 1
\* turns, s is the root state after do_move(m), and (m, s) is the node whose
\* expansion pushed (i, t) (the root for i = 1); so no unwrap fails and no
\* index exceeds k.
C38_DpllHistory ==
    (pc = "dpll_loop" /\ res.possible_turns # <<>>) =>
        /\ 1 <= DpllTop.i /\ DpllTop.i <= res.k
        /\ DOMAIN res.state_history = 0..res.k
        /\ res.state_history[DpllTop.i - 1].outcome = "Some"
        /\ Len(res.state_history[DpllTop.i - 1].move) = DpllTop.i - 1
        /\ res.state_history[DpllTop.i - 1].state
              = do_move(data, n, res.state_history[DpllTop.i - 1].move)
        /\ res.state_history[DpllTop.i - 1].move = DpllTop.by
        /\ DpllTop.i = 1 => res.state_history[0].state = data

\* an entry of the deepest level on top, while entries of every level wait
C38_Witness ==
    /\ pc = "dpll_loop"
    /\ res.k = MaxStepK
    /\ res.possible_turns # <<>>
    /\ DpllTop.i = res.k
    /\ Len(DpllTop.by) = res.k - 1
    /\ \A i \in 1..res.k : \E j \in 1..Len(res.possible_turns) : res.possible_turns[j].i = i

\* back at a lower level after deeper nodes were stored in state_history
C38_WitnessBacktracked ==
    /\ pc = "dpll_loop"
    /\ res.possible_turns # <<>>
    /\ DpllTop.i = 1
    /\ res.state_history[1].outcome = "Some"
    /\ res.state_history[2].outcome = "Some"

\* the entry the next pass of the while loop of the IDA* search pops
IdaTop == SortByF(res.stack)[Len(res.stack)]

\* C39: in solve_with_idastar, whenever min_turns is Some(v) where
\* calc_heuristics is called for a child of depth next_g, v >= next_g, so the
\* subtraction v - next_g never wraps: the search never ends in the panic of
\* the subtraction, and while it runs min_turns, every f it rejected in the
\* pass included, is beyond the bound while every entry of the stack has
\* g <= f <= bound, so that min_turns >= g + 1 = next_g for each child.
C39_NoUnderflow ==
    /\ (pc = "ida_returned" /\ res.solve_smaller) => res.result.outcome # "panic"
    /\ (pc = "ida_loop" /\ res.solve_smaller) =>
          /\ \A j \in 1..Len(res.stack) :
                /\ Len(res.stack[j].move) <= res.stack[j].f
                /\ res.stack[j].f <= res.bound
          /\ \A v \in res.rejected : v > res.bound
          /\ res.min_turns.outcome = "Some" =>
                /\ res.min_turns.v \in res.rejected
                /\ \A j \in 1..Len(res.stack) :
                      res.min_turns.v >= Len(res.stack[j].move) + 1

\* min_turns is set and the entry popped next is not the root: the
\* subtraction is made for its children, min_turns one above their depth
C39_Witness ==
    /\ pc = "ida_loop"
    /\ res.solve_smaller
    /\ res.stack # <<>>
    /\ res.min_turns.outcome = "Some"
    /\ Len(IdaTop.move) >= 1
    /\ ~is_solved(IdaTop.state, n)
    /\ res.min_turns.v = Len(IdaTop.move) + 2

====
